---- MODULE Spec2Model ----
(***************************************************************************)
(* A model of rjlox, a tree-walking interpreter for Lox written in Rust.   *)
(*                                                                         *)
(* The interpreter and the resolver are recursive visitors, the parser is  *)
(* a recursive descent; each method of the source is one operator here,    *)
(* which takes the object's state as a record and returns the state after  *)
(* the call together with the Rust Result it produced.  The recursion goes *)
(* through one operator per object: accept for the two visitors, self for  *)
(* the parser.  Reference-counted environments (Rc<Environment>) live in a *)
(* heap, a sequence of records addressed by their index; index 0 stands    *)
(* for None.                                                               *)
(***************************************************************************)
EXTENDS Integers, Sequences, FiniteSets, TLC

VARIABLES
    prog,       \* the input: a statement list for resolver and interpreter,
                \* the words of a source text for the parser, or its
                \* characters for the scanner
    phase,      \* "resolve", "run", "done", "cut" or "resolve_error";
                \* "parse", "parsed" or "parse_error"; "scan" or "scanned"
    pc,         \* index of the next top-level statement of Interpreter::interpret
    interp,     \* the Interpreter (env, globals, locals), the heap and its output
    resolver,   \* the Resolver after Resolver::resolve_statements, and its Result
    parser,     \* the Parser (tokens, current), its result and its diagnostics
    scanner     \* the Scanner (source, tokens, start, current, line)

vars == <<prog, phase, pc, interp, resolver, parser, scanner>>

-----------------------------------------------------------------------------
(* Bounds of the model *)

MaxSteps == 60      \* statements and calls one top-level statement may execute
MaxCalls == 3       \* length of the call sequences of the closure programs
MaxArity == 2       \* parameters and arguments of the arity programs

-----------------------------------------------------------------------------
(* token.rs: Literal, Token *)

Nil == [t |-> "Nil"]
Bool(b) == [t |-> "Bool", b |-> b]
Num(n) == [t |-> "Num", n |-> n]
Str(s) == [t |-> "Str", s |-> s]

\* Token has the fields token_type, lexeme, literal and line.  pos is the
\* token's index in the source, which is not a field of the struct: the
\* derived PartialEq/Hash of Token (TokenKey) cannot see it.
Token(token_type, lexeme, literal, line, pos) ==
    [token_type |-> token_type, lexeme |-> lexeme, literal |-> literal,
     line |-> line, pos |-> pos]

TokenKey(tok) ==
    [token_type |-> tok.token_type, lexeme |-> tok.lexeme,
     literal |-> tok.literal, line |-> tok.line]

\* impl PartialEq for Literal
Literal_eq(a, b) ==
    CASE a.t = "Bool" /\ b.t = "Bool" -> a.b = b.b
      [] a.t = "Str" /\ b.t = "Str" -> a.s = b.s
      [] a.t = "Num" /\ b.t = "Num" -> a.n = b.n
      [] a.t = "Nil" /\ b.t = "Nil" -> TRUE
      [] OTHER -> FALSE

\* impl fmt::Display for Literal
Literal_fmt(l) ==
    CASE l.t = "Str" -> l.s
      [] l.t = "Num" ->
            IF "n" \in DOMAIN l THEN ToString(l.n)
            ELSE ToString(l.numerator) \o "/" \o ToString(l.denominator)
      [] l.t = "Bool" -> (IF l.b THEN "true" ELSE "false")
      [] l.t = "Nil" -> "nil"

-----------------------------------------------------------------------------
(* expr.rs, stmt.rs: the AST *)

Expr_Literal(value) == [e |-> "Literal", value |-> value]
Expr_Variable(name) == [e |-> "Variable", name |-> name]
Expr_Assign(name, value) == [e |-> "Assign", name |-> name, value |-> value]
Expr_Unary(operator, right) == [e |-> "Unary", operator |-> operator, right |-> right]
Expr_Binary(left, operator, right) ==
    [e |-> "Binary", left |-> left, operator |-> operator, right |-> right]
Expr_Logic(left, operator, right) ==
    [e |-> "Logic", left |-> left, operator |-> operator, right |-> right]
Expr_Grouping(expression) == [e |-> "Grouping", expression |-> expression]
Expr_Call(callee, paren, arguments) ==
    [e |-> "Call", callee |-> callee, paren |-> paren, arguments |-> arguments]

None == [some |-> FALSE]
Some(x) == [some |-> TRUE, v |-> x]

Stmt_Expression(expression) == [s |-> "Expression", expression |-> expression]
Stmt_Print(expression) == [s |-> "Print", expression |-> expression]
Stmt_Return(keyword, value) == [s |-> "Return", keyword |-> keyword, value |-> value]
Stmt_Var(name, expression) == [s |-> "Var", name |-> name, expression |-> expression]
Stmt_Block(stmts) == [s |-> "Block", stmts |-> stmts]
Stmt_Function(name, params, body) ==
    [s |-> "Function", name |-> name, params |-> params, body |-> body]
Stmt_If(condition, then_branch, else_branch) ==
    [s |-> "If", condition |-> condition, then_branch |-> then_branch,
     else_branch |-> else_branch]
Stmt_While(condition, body) == [s |-> "While", condition |-> condition, body |-> body]

\* #[derive(Eq, Hash, PartialEq)] on Expr: what a HashMap<Expr, usize> sees
\* of an expression, which is its structure with every token reduced to its
\* four fields.
RECURSIVE ExprKey(_)
ExprKeys(es) == [i \in 1..Len(es) |-> ExprKey(es[i])]
ExprKey(x) ==
    CASE x.e = "Literal" -> x
      [] x.e = "Variable" -> Expr_Variable(TokenKey(x.name))
      [] x.e = "Assign" -> Expr_Assign(TokenKey(x.name), ExprKey(x.value))
      [] x.e = "Unary" -> Expr_Unary(TokenKey(x.operator), ExprKey(x.right))
      [] x.e = "Binary" ->
            Expr_Binary(ExprKey(x.left), TokenKey(x.operator), ExprKey(x.right))
      [] x.e = "Logic" ->
            Expr_Logic(ExprKey(x.left), TokenKey(x.operator), ExprKey(x.right))
      [] x.e = "Grouping" -> Expr_Grouping(ExprKey(x.expression))
      [] x.e = "Call" ->
            Expr_Call(ExprKey(x.callee), TokenKey(x.paren), ExprKeys(x.arguments))

-----------------------------------------------------------------------------
(* object.rs, callable.rs: runtime values *)

Clock == [t |-> "Clock"]
Fun(name, params, body, closure) ==
    [t |-> "Fun", name |-> name, params |-> params, body |-> body,
     closure |-> closure]

IsLiteral(v) == v.t \in {"Nil", "Bool", "Num", "Str"}
IsCallable(v) == v.t \in {"Clock", "Fun"}

\* impl fmt::Display for Object / Callable
Object_fmt(v) ==
    CASE v.t = "Clock" -> "<native fn>"
      [] v.t = "Fun" -> "<fn " \o v.name.lexeme \o ">"
      [] OTHER -> Literal_fmt(v)

\* LoxCallable::arity
arity(callable) ==
    IF callable.t = "Clock" THEN 0 ELSE Len(callable.params)

-----------------------------------------------------------------------------
(* error.rs: Result<T, Error> *)

Ok(v) == [k |-> "Ok", v |-> v]
RuntimeError(token, msg) == [k |-> "RuntimeError", token |-> token, msg |-> msg]
ReturnSignal(v) == [k |-> "Return", v |-> v]
ResolveError(token, msg) == [k |-> "ResolveError", token |-> token, msg |-> msg]
ParseError(msg) == [k |-> "ParseError", msg |-> msg]
OutOfSteps == [k |-> "OutOfSteps"]

-----------------------------------------------------------------------------
(* environment.rs *)

EmptyMap == [n \in {} |-> Nil]
MapPut(m, key, value) ==
    [n \in DOMAIN m \cup {key} |-> IF n = key THEN value ELSE m[n]]

\* Environment::new; enclosing 0 is None
Environment_new(enclosing) == [enclosing |-> enclosing, values |-> EmptyMap]

\* Environment::define, on an environment and on one that lives in the heap
Environment_define(environment, name, value) ==
    [environment EXCEPT !.values = MapPut(@, name, value)]

HeapDefine(heap, id, name, value) ==
    [heap EXCEPT ![id] = Environment_define(@, name, value)]

UndefinedVariable(name) ==
    RuntimeError(name, "Undefined variable '" \o name.lexeme \o "'.")

\* Environment::get
RECURSIVE Environment_get(_, _, _)
Environment_get(heap, id, name) ==
    IF name.lexeme \in DOMAIN heap[id].values
    THEN Ok(heap[id].values[name.lexeme])
    ELSE IF heap[id].enclosing # 0
         THEN Environment_get(heap, heap[id].enclosing, name)
         ELSE UndefinedVariable(name)

\* an assign that writes the environment it is called on
Environment_assign_here(heap, id, name, value) ==
    [heap |-> HeapDefine(heap, id, name.lexeme, value), r |-> Ok(Nil)]

\* Environment::assign; returns the heap after the call and the Result
RECURSIVE Environment_assign(_, _, _, _)
Environment_assign(heap, id, name, value) ==
    IF name.lexeme \in DOMAIN heap[id].values
    THEN [heap |-> HeapDefine(heap, id, name.lexeme, value), r |-> Ok(Nil)]
    ELSE IF heap[id].enclosing # 0
         THEN Environment_assign(heap, heap[id].enclosing, name, value)
         ELSE [heap |-> heap, r |-> UndefinedVariable(name)]

\* The environment `distance` enclosing steps outward of id, 0 when the
\* chain ends before.
RECURSIVE ancestor(_, _, _)
ancestor(heap, id, distance) ==
    IF distance = 0 THEN id
    ELSE IF heap[id].enclosing = 0 THEN 0
         ELSE ancestor(heap, heap[id].enclosing, distance - 1)

\* Environment::get_at: reads the own map of the environment `distance`
\* steps outward; None when the name is absent there.
get_at(heap, id, distance, lexeme) ==
    LET a == ancestor(heap, id, distance) IN
    IF a # 0 /\ lexeme \in DOMAIN heap[a].values
    THEN Some(heap[a].values[lexeme])
    ELSE None

\* Environment::assign_at: the symmetric write; None when the name is absent
\* there, and then nothing is written.
assign_at(heap, id, distance, name, value) ==
    LET a == ancestor(heap, id, distance) IN
    IF a # 0 /\ name.lexeme \in DOMAIN heap[a].values
    THEN [heap |-> HeapDefine(heap, a, name.lexeme, value), r |-> Some(Nil)]
    ELSE [heap |-> heap, r |-> None]

-----------------------------------------------------------------------------
(* interpreter.rs, callable.rs: the tree-walking evaluator                  *)
(*                                                                          *)
(* I is the Interpreter: env, globals and locals are its fields; heap holds *)
(* the environments its Rc's point to; out is what it printed; log records  *)
(* what it did (reads, blocks, calls, declarations), for the properties;    *)
(* steps counts the statements executed for the current top-level one and   *)
(* clock is the wall-clock second Local::now() returns.                     *)
(* Every operator returns Res(I', r): the interpreter after the call and    *)
(* the Result<_, Error> the method returned.                                *)

Res(I, r) == [I |-> I, r |-> r]
IsOk(res) == res.r.k = "Ok"

\* the ? operator: an Err is returned at once, an Ok value goes on
Try(x, K(_)) == IF ~IsOk(x) THEN x ELSE K(x)

Logged(I, rec) == [I EXCEPT !.log = Append(@, rec)]

\* Interpreter::new
Interpreter_new ==
    [env |-> 1, globals |-> 1, locals |-> EmptyMap,
     heap |-> <<Environment_define(Environment_new(0), "clock", Clock)>>,
     out |-> <<>>, log |-> <<>>, steps |-> 0, clock |-> 0]

\* a resolve that adds the depth to the entry it finds
Interpreter_resolve_added(locals, expr, depth) ==
    MapPut(locals, ExprKey(expr),
           IF ExprKey(expr) \in DOMAIN locals THEN locals[ExprKey(expr)] + depth
           ELSE depth)

\* Interpreter::resolve
Interpreter_resolve(locals, expr, depth) == MapPut(locals, ExprKey(expr), depth)

\* Interpreter::is_truthy
is_truthy(object) ==
    CASE object.t = "Nil" -> FALSE
      [] object.t = "Bool" -> object.b
      [] OTHER -> TRUE

\* What each environment of the chain that starts at id binds the name to,
\* innermost first
RECURSIVE Bindings(_, _, _)
Bindings(heap, id, lexeme) ==
    IF id = 0 THEN <<>>
    ELSE <<get_at(heap, id, 0, lexeme)>> \o Bindings(heap, heap[id].enclosing, lexeme)

\* Interpreter::lookup_variable
lookup_variable(I, name, expr) ==
    LET key == ExprKey(expr)
        r == IF key \in DOMAIN I.locals
             THEN LET x == get_at(I.heap, I.env, I.locals[key], name.lexeme) IN
                  IF x.some THEN Ok(x.v) ELSE Environment_get(I.heap, I.env, name)
             ELSE Environment_get(I.heap, I.globals, name)
        distance == IF key \in DOMAIN I.locals THEN Some(I.locals[key]) ELSE None
    IN Res(Logged(I, [kind |-> "read", pos |-> name.pos, name |-> name.lexeme,
                      env |-> I.env, distance |-> distance, r |-> r,
                      bindings |-> Bindings(I.heap, I.env, name.lexeme)]), r)

\* left_value / right_value on f32.  The model's Num are integers; a quotient
\* that is no integer (or is infinite or NaN) is kept as the fraction itself.
Quotient(l, r) ==
    IF r # 0 /\ l % r = 0 THEN Num(l \div r)
    ELSE [t |-> "Num", numerator |-> l, denominator |-> r]

\* Interpreter::visit_binary_expr, the match on the two evaluated operands
visit_binary_expr_match(left, operator, right) ==
    LET op == operator.token_type IN
    CASE left.t = "Num" /\ right.t = "Num" ->
            (CASE op = "PLUS" -> Ok(Num(left.n + right.n))
               [] op = "MINUS" -> Ok(Num(left.n - right.n))
               [] op = "SLASH" -> Ok(Quotient(left.n, right.n))
               [] op = "STAR" -> Ok(Num(left.n * right.n))
               [] op = "GREATER" -> Ok(Bool(left.n > right.n))
               [] op = "GreaterEqual" -> Ok(Bool(left.n >= right.n))
               [] op = "LESS" -> Ok(Bool(left.n < right.n))
               [] op = "LessEqual" -> Ok(Bool(left.n <= right.n))
               [] op = "EqualEqual" -> Ok(Bool(left.n = right.n))
               [] op = "BangEqual" -> Ok(Bool(left.n # right.n))
               [] OTHER -> Ok(Nil))
      [] left.t = "Str" /\ right.t = "Str" ->
            (CASE op = "PLUS" -> Ok(Str(left.s \o right.s))
               [] op = "EqualEqual" -> Ok(Bool(left.s = right.s))
               [] op = "BangEqual" -> Ok(Bool(left.s # right.s))
               [] OTHER -> Ok(Nil))
      [] OTHER ->
            IF op = "PLUS"
            THEN RuntimeError(operator, "Operands must be two numbers or two strings.")
            ELSE RuntimeError(operator, "Operands must be numbers.")

\* Interpreter::visit_unary_expr, the match on the evaluated operand
visit_unary_expr_match(operator, right) ==
    CASE operator.token_type = "MINUS" ->
            IF right.t = "Num" THEN Ok(Num(0 - right.n))
            ELSE RuntimeError(operator, "Operand must be a number.")
      [] operator.token_type = "BANG" -> Ok(Bool(~is_truthy(right)))
      [] OTHER -> RuntimeError(operator, "Operand must be a number.")

\* Callable::call, the loop that defines each parameter to its argument
RECURSIVE define_params(_, _, _, _)
define_params(environment, params, arguments, i) ==
    IF i > Len(arguments) THEN environment
    ELSE define_params(Environment_define(environment, params[i].lexeme, arguments[i]),
                       params, arguments, i + 1)

ArityMessage(expected, got) ==
    "Expected " \o ToString(expected) \o " arguments but got " \o ToString(got) \o "."

RECURSIVE Interpreter_accept(_, _)
RECURSIVE execute_block_loop(_, _, _)
RECURSIVE evaluate_arguments(_, _, _, _)
RECURSIVE visit_while_stmt(_, _, _)

\* Interpreter::evaluate
evaluate(I, expr) == Interpreter_accept(I, expr)

\* Interpreter::execute.  The host's call stack is finite; the model gives up
\* after MaxSteps statements.
execute(I, stmt) ==
    IF I.steps >= MaxSteps THEN Res(I, OutOfSteps)
    ELSE Interpreter_accept([I EXCEPT !.steps = @ + 1], stmt)

\* Interpreter::execute_block, the for loop over the statements
execute_block_loop(I, stmts, i) ==
    IF i > Len(stmts) THEN Res(I, Ok(Nil))
    ELSE Try(execute(I, stmts[i]), LAMBDA x : execute_block_loop(x.I, stmts, i + 1))

\* execute_block without the assignment on the Err path
execute_block_leave_ok_only(previous_env, new, enclosing, x) ==
    LET left == IF ~IsOk(x)
                THEN x.I
                ELSE [x.I EXCEPT !.env = previous_env]
    IN Res(Logged(left, [kind |-> "block", entry |-> previous_env, new |-> new,
                         enclosing |-> enclosing, exit |-> left.env,
                         outcome |-> x.r.k]),
           x.r)

\* Interpreter::execute_block, leaving the loop with result x: self.env =
\* previous_env on the Err path and on the Ok path
execute_block_leave(previous_env, new, enclosing, x) ==
    LET left == IF ~IsOk(x)
                THEN [x.I EXCEPT !.env = previous_env]
                ELSE [x.I EXCEPT !.env = previous_env]
    IN Res(Logged(left, [kind |-> "block", entry |-> previous_env, new |-> new,
                         enclosing |-> enclosing, exit |-> left.env,
                         outcome |-> x.r.k]),
           x.r)

\* Interpreter::execute_block
execute_block(I, stmts, env) ==
    execute_block_leave(I.env, Len(I.heap) + 1, env.enclosing,
        execute_block_loop([I EXCEPT !.heap = Append(@, env), !.env = Len(I.heap) + 1],
                           stmts, 1))

\* Interpreter::visit_binary_expr
visit_binary_expr(I, left, operator, right) ==
    Try(evaluate(I, left), LAMBDA l :
    Try(evaluate(l.I, right), LAMBDA r :
        Res(r.I, visit_binary_expr_match(l.r.v, operator, r.r.v))))

\* Interpreter::visit_grouping_expr
visit_grouping_expr(I, expression) == evaluate(I, expression)

\* Interpreter::visit_literal_expr
visit_literal_expr(I, value) == Res(I, Ok(value))

\* Interpreter::visit_unary_expr
visit_unary_expr(I, operator, right) ==
    Try(evaluate(I, right),
        LAMBDA r : Res(r.I, visit_unary_expr_match(operator, r.r.v)))

\* Interpreter::visit_var_expr
visit_var_expr(I, name) == lookup_variable(I, name, Expr_Variable(name))

\* Interpreter::visit_assign_expr, the match on distance: what the store
\* did to the heap and the Result it gave
visit_assign_expr_match(I, name, value, value_object) ==
    LET key == ExprKey(value) IN
    IF key \in DOMAIN I.locals
    THEN LET a == assign_at(I.heap, I.env, I.locals[key], name, value_object) IN
         IF a.r.some THEN [heap |-> a.heap, r |-> Ok(Nil)]
         ELSE Environment_assign(a.heap, I.env, name, value_object)
    ELSE Environment_assign(I.heap, I.globals, name, value_object)

\* Interpreter::visit_assign_expr, after the store w
visit_assign_expr_done(I, name, value, value_object, w) ==
    Res(Logged([I EXCEPT !.heap = w.heap],
               [kind |-> "assign", pos |-> name.pos, name |-> name.lexeme,
                env |-> I.env, v |-> value_object, r |-> w.r,
                before |-> I.heap, after |-> w.heap,
                distance |-> IF ExprKey(value) \in DOMAIN I.locals
                             THEN Some(I.locals[ExprKey(value)]) ELSE None]),
        IF w.r.k # "Ok" THEN w.r ELSE Ok(value_object))

\* Interpreter::visit_assign_expr; the table is asked for the value
\* expression, as the source does
visit_assign_expr(I, name, value) ==
    Try(evaluate(I, value), LAMBDA v :
        visit_assign_expr_done(v.I, name, value, v.r.v,
            visit_assign_expr_match(v.I, name, value, v.r.v)))

\* visit_logic_expr that evaluates both operands before it decides
visit_logic_expr_eager(I, left, operator, right) ==
    Try(evaluate(I, left), LAMBDA evaluated_left :
    Try(evaluate(evaluated_left.I, right), LAMBDA evaluated_right :
        IF operator.token_type = "OR"
        THEN IF is_truthy(evaluated_left.r.v)
             THEN Res(evaluated_right.I, evaluated_left.r) ELSE evaluated_right
        ELSE IF ~is_truthy(evaluated_left.r.v)
             THEN Res(evaluated_right.I, evaluated_left.r) ELSE evaluated_right))

\* Interpreter::visit_logic_expr
visit_logic_expr(I, left, operator, right) ==
    Try(evaluate(I, left), LAMBDA evaluated_left :
        IF operator.token_type = "OR"
        THEN IF is_truthy(evaluated_left.r.v) THEN evaluated_left
             ELSE evaluate(evaluated_left.I, right)
        ELSE IF ~is_truthy(evaluated_left.r.v) THEN evaluated_left
             ELSE evaluate(evaluated_left.I, right))

\* Interpreter::visit_call_expr, the loop that evaluates the arguments
evaluate_arguments(I, arguments, i, args) ==
    IF i > Len(arguments) THEN Res(I, Ok(args))
    ELSE Try(evaluate(I, arguments[i]), LAMBDA a :
             evaluate_arguments(a.I, arguments, i + 1, Append(args, a.r.v)))

\* call that hands a Return signal on to its caller
Callable_call_match_uncaught(I, callable, x) ==
    LET blk == x.I.log[Len(x.I.log)] IN
    Res(Logged(x.I, [kind |-> "call", name |-> callable.name.lexeme,
                     closure |-> callable.closure, caller |-> I.env,
                     heap_before |-> Len(I.heap), env |-> blk.new,
                     enclosing |-> x.I.heap[blk.new].enclosing,
                     params |-> x.I.heap[blk.new].values,
                     outcome |-> x.r.k]),
        IF ~IsOk(x) THEN x.r ELSE Ok(Nil))

\* LoxCallable::call for Callable, the match on what execute_block returned
Callable_call_match(I, callable, x) ==
    LET blk == x.I.log[Len(x.I.log)] IN
    Res(Logged(x.I, [kind |-> "call", name |-> callable.name.lexeme,
                     closure |-> callable.closure, caller |-> I.env,
                     heap_before |-> Len(I.heap), env |-> blk.new,
                     enclosing |-> x.I.heap[blk.new].enclosing,
                     params |-> x.I.heap[blk.new].values,
                     outcome |-> x.r.k]),
        IF ~IsOk(x)
        THEN IF x.r.k = "Return" THEN Ok(x.r.v) ELSE x.r
        ELSE Ok(Nil))

\* call with the caller's environment enclosing the new one
Callable_call_dynamic(I, callable, arguments) ==
    IF callable.t = "Clock" THEN Res(I, Ok(Num(I.clock)))
    ELSE Callable_call_match(I, callable,
            execute_block(I, callable.body,
                          define_params(Environment_new(I.env),
                                        callable.params, arguments, 1)))

\* LoxCallable::call for Callable
Callable_call(I, callable, arguments) ==
    IF callable.t = "Clock" THEN Res(I, Ok(Num(I.clock)))
    ELSE Callable_call_match(I, callable,
            execute_block(I, callable.body,
                          define_params(Environment_new(callable.closure),
                                        callable.params, arguments, 1)))

\* visit_call_expr that rejects only too many arguments
visit_call_expr_match_more(I, callee, paren, args) ==
    IF IsCallable(callee)
    THEN IF Len(args) > arity(callee)
         THEN Res(I, RuntimeError(paren, ArityMessage(arity(callee), Len(args))))
         ELSE Callable_call(I, callee, args)
    ELSE Res(I, RuntimeError(paren, "Can only call functions and classes."))

\* Interpreter::visit_call_expr, the match on the evaluated callee
visit_call_expr_match(I, callee, paren, args) ==
    IF IsCallable(callee)
    THEN IF Len(args) # arity(callee)
         THEN Res(I, RuntimeError(paren, ArityMessage(arity(callee), Len(args))))
         ELSE Callable_call(I, callee, args)
    ELSE Res(I, RuntimeError(paren, "Can only call functions and classes."))

\* visit_call_expr that looks at the callee before it evaluates the arguments
visit_call_expr_callee_first(I, callee, paren, arguments) ==
    Try(evaluate(I, callee), LAMBDA c :
        IF ~IsCallable(c.r.v)
        THEN Res(c.I, RuntimeError(paren, "Can only call functions and classes."))
        ELSE Try(evaluate_arguments(c.I, arguments, 1, <<>>), LAMBDA args :
                 visit_call_expr_match(args.I, c.r.v, paren, args.r.v)))

\* Interpreter::visit_call_expr
visit_call_expr(I, callee, paren, arguments) ==
    Try(evaluate(I, callee), LAMBDA c :
    Try(evaluate_arguments(c.I, arguments, 1, <<>>), LAMBDA args :
        visit_call_expr_match(args.I, c.r.v, paren, args.r.v)))

\* Interpreter::visit_expression_stmt
visit_expression_stmt(I, expression) ==
    Try(evaluate(I, expression), LAMBDA v : Res(v.I, Ok(Nil)))

\* Interpreter::visit_print_stmt
visit_print_stmt(I, expression) ==
    Try(evaluate(I, expression), LAMBDA value :
        Res([value.I EXCEPT !.out = Append(@, [ch |-> "print",
                                                text |-> Object_fmt(value.r.v)])],
            Ok(Nil)))

\* visit_var_stmt that defines the name in the global environment
visit_var_stmt_global(I, name, expression) ==
    Try(evaluate(I, expression), LAMBDA value :
        Res([value.I EXCEPT
               !.heap = HeapDefine(@, value.I.globals, name.lexeme, value.r.v)],
            Ok(Nil)))

\* Interpreter::visit_var_stmt
visit_var_stmt(I, name, expression) ==
    Try(evaluate(I, expression), LAMBDA value :
        Res([value.I EXCEPT
               !.heap = HeapDefine(@, value.I.env, name.lexeme, value.r.v)],
            Ok(Nil)))

\* visit_block_stmt whose environment encloses nothing
visit_block_stmt_rootless(I, stmts) ==
    Try(execute_block(I, stmts, Environment_new(0)),
        LAMBDA x : Res(x.I, Ok(Nil)))

\* Interpreter::visit_block_stmt
visit_block_stmt(I, stmts) ==
    Try(execute_block(I, stmts, Environment_new(I.env)),
        LAMBDA x : Res(x.I, Ok(Nil)))

\* Interpreter::visit_if_stmt
visit_if_stmt(I, condition, then_branch, else_branch) ==
    Try(evaluate(I, condition), LAMBDA evaluated :
    Try(IF is_truthy(evaluated.r.v)
        THEN execute(evaluated.I, then_branch)
        ELSE Res(evaluated.I, Ok(Nil)),
        LAMBDA then_done :
        IF else_branch.some
        THEN execute(then_done.I, else_branch.v)
        ELSE Res(then_done.I, Ok(Nil))))

\* Interpreter::visit_while_stmt
visit_while_stmt(I, condition, body) ==
    Try(evaluate(I, condition), LAMBDA evaluated_condition :
        IF is_truthy(evaluated_condition.r.v)
        THEN Try(execute(evaluated_condition.I, body),
                 LAMBDA b : visit_while_stmt(b.I, condition, body))
        ELSE Res(evaluated_condition.I, Ok(Nil)))

\* visit_fun_stmt that captures a copy of the environment, not the Rc
visit_fun_stmt_copy(I, name, params, body) ==
    Res(Logged([I EXCEPT !.heap = Append(HeapDefine(@, I.env, name.lexeme,
                                            Fun(name, params, body, Len(I.heap) + 1)),
                                         I.heap[I.env])],
               [kind |-> "fun", name |-> name.lexeme, env |-> I.env]),
        Ok(Nil))

\* Interpreter::visit_fun_stmt
visit_fun_stmt(I, name, params, body) ==
    Res(Logged([I EXCEPT !.heap = HeapDefine(@, I.env, name.lexeme,
                                             Fun(name, params, body, I.env))],
               [kind |-> "fun", name |-> name.lexeme, env |-> I.env]),
        Ok(Nil))

\* Interpreter::visit_return_stmt
visit_return_stmt(I, keyword, value) ==
    IF value = Expr_Literal(Nil) THEN Res(I, ReturnSignal(Nil))
    ELSE Try(evaluate(I, value), LAMBDA evaluated_value :
             Res(evaluated_value.I, ReturnSignal(evaluated_value.r.v)))

\* impl expr::Acceptor for Expr and impl stmt::Acceptor for Stmt, with the
\* Interpreter as the visitor
Interpreter_accept(I, node) ==
    IF "e" \in DOMAIN node
    THEN CASE node.e = "Binary" ->
                 visit_binary_expr(I, node.left, node.operator, node.right)
           [] node.e = "Grouping" -> visit_grouping_expr(I, node.expression)
           [] node.e = "Literal" -> visit_literal_expr(I, node.value)
           [] node.e = "Unary" -> visit_unary_expr(I, node.operator, node.right)
           [] node.e = "Variable" -> visit_var_expr(I, node.name)
           [] node.e = "Assign" -> visit_assign_expr(I, node.name, node.value)
           [] node.e = "Logic" ->
                 visit_logic_expr(I, node.left, node.operator, node.right)
           [] node.e = "Call" ->
                 visit_call_expr(I, node.callee, node.paren, node.arguments)
    ELSE CASE node.s = "Expression" -> visit_expression_stmt(I, node.expression)
           [] node.s = "Print" -> visit_print_stmt(I, node.expression)
           [] node.s = "Var" -> visit_var_stmt(I, node.name, node.expression)
           [] node.s = "Block" -> visit_block_stmt(I, node.stmts)
           [] node.s = "If" ->
                 visit_if_stmt(I, node.condition, node.then_branch, node.else_branch)
           [] node.s = "While" -> visit_while_stmt(I, node.condition, node.body)
           [] node.s = "Function" -> visit_fun_stmt(I, node.name, node.params, node.body)
           [] node.s = "Return" -> visit_return_stmt(I, node.keyword, node.value)

-----------------------------------------------------------------------------
(* resolver.rs                                                              *)
(*                                                                          *)
(* R is the Resolver: scopes and current_function are its fields, locals is *)
(* the table of the interpreter it borrows.  sites records, for the token   *)
(* position of every reference resolve_local was asked about, what the walk *)
(* over the scopes found there, and the expression the entry was made for;  *)
(* depths records the length of scopes at that moment.                      *)

Resolver_new(locals) ==
    [scopes |-> <<>>, current_function |-> "NONE", locals |-> locals,
     sites |-> EmptyMap, depths |-> EmptyMap]

\* Resolver::begin_scope
begin_scope(R) == [R EXCEPT !.scopes = Append(@, EmptyMap)]

\* Resolver::end_scope
end_scope(R) == [R EXCEPT !.scopes = SubSeq(@, 1, Len(@) - 1)]

\* declare that inserts whether or not the name is there
declare_unchecked(R, name) ==
    IF R.scopes = <<>> THEN Res(R, Ok(Nil))
    ELSE Res([R EXCEPT !.scopes[Len(R.scopes)] = MapPut(@, name.lexeme, FALSE)],
             Ok(Nil))

\* Resolver::declare
declare(R, name) ==
    IF R.scopes = <<>> THEN Res(R, Ok(Nil))
    ELSE IF name.lexeme \in DOMAIN R.scopes[Len(R.scopes)]
         THEN Res(R, ResolveError(name,
                        "Already a variable with this name in this scope."))
         ELSE Res([R EXCEPT !.scopes[Len(R.scopes)] = MapPut(@, name.lexeme, FALSE)],
                  Ok(Nil))

\* Resolver::define
define(R, name) ==
    IF R.scopes = <<>> THEN R
    ELSE [R EXCEPT !.scopes[Len(R.scopes)] = MapPut(@, name.lexeme, TRUE)]

\* Resolver::resolve_local, the walk from the innermost scope outward;
\* i is the index of the scope looked at (nesting_layer + 1)
RECURSIVE resolve_local_loop(_, _, _, _)
resolve_local_loop(R, expr, name, i) ==
    IF i = 0
    THEN [R EXCEPT !.sites = MapPut(@, name.pos, None)]
    ELSE IF name.lexeme \in DOMAIN R.scopes[i]
         THEN [R EXCEPT
                 !.locals = Interpreter_resolve(@, expr, Len(R.scopes) - i),
                 !.sites = MapPut(@, name.pos,
                                  [some |-> TRUE, v |-> Len(R.scopes) - i,
                                   expr |-> expr])]
         ELSE resolve_local_loop(R, expr, name, i - 1)

\* Resolver::resolve_local
resolve_local(R, expr, name) ==
    Res([resolve_local_loop(R, expr, name, Len(R.scopes)) EXCEPT
           !.depths = MapPut(@, name.pos, Len(R.scopes))],
        Ok(Nil))

RECURSIVE Resolver_accept(_, _)
RECURSIVE resolve_statements_loop(_, _, _)
RECURSIVE resolve_arguments(_, _, _)

\* Resolver::resolve_expr
resolve_expr(R, expr) == Resolver_accept(R, expr)

\* Resolver::resolve_statement
resolve_statement(R, stmt) == Resolver_accept(R, stmt)

\* Resolver::resolve_statements
resolve_statements_loop(R, statements, i) ==
    IF i > Len(statements) THEN Res(R, Ok(Nil))
    ELSE Try(resolve_statement(R, statements[i]),
             LAMBDA x : resolve_statements_loop(x.I, statements, i + 1))

resolve_statements(R, statements) == resolve_statements_loop(R, statements, 1)

\* Resolver::resolve_function, the loop that declares and defines the params
RECURSIVE resolve_params(_, _, _)
resolve_params(R, params, i) ==
    IF i > Len(params) THEN Res(R, Ok(Nil))
    ELSE Try(declare(R, params[i]),
             LAMBDA d : resolve_params(define(d.I, params[i]), params, i + 1))

\* resolve_function that leaves current_function as it set it
resolve_function_kept(R, name, params, body, fun_type) ==
    Try(resolve_params(begin_scope([R EXCEPT !.current_function = fun_type]),
                       params, 1), LAMBDA p :
    Try(resolve_statements(p.I, body), LAMBDA b :
        Res(end_scope(b.I), Ok(Nil))))

\* Resolver::resolve_function
resolve_function(R, name, params, body, fun_type) ==
    Try(resolve_params(begin_scope([R EXCEPT !.current_function = fun_type]),
                       params, 1), LAMBDA p :
    Try(resolve_statements(p.I, body), LAMBDA b :
        Res([end_scope(b.I) EXCEPT !.current_function = R.current_function],
            Ok(Nil))))

\* Resolver::visit_binary_expr and Resolver::visit_logic_expr
Resolver_visit_binary_expr(R, left, right) ==
    Try(resolve_expr(R, left), LAMBDA l : resolve_expr(l.I, right))

\* Resolver::visit_var_expr; scopes.iter().peekable().peek() is the first
\* element of the vector
Resolver_visit_var_expr(R, name) ==
    IF /\ R.scopes # <<>>
       /\ name.lexeme \in DOMAIN R.scopes[1]
       /\ R.scopes[1][name.lexeme] = FALSE
    THEN Res(R, ResolveError(name,
                   "Cannot read local variable in its own initializer."))
    ELSE resolve_local(R, Expr_Variable(name), name)

\* Resolver::visit_assign_expr
Resolver_visit_assign_expr(R, name, value) ==
    Try(resolve_expr(R, value), LAMBDA v : resolve_local(v.I, value, name))

\* Resolver::visit_call_expr, the loop over the arguments
resolve_arguments(R, arguments, i) ==
    IF i > Len(arguments) THEN Res(R, Ok(Nil))
    ELSE Try(resolve_expr(R, arguments[i]),
             LAMBDA a : resolve_arguments(a.I, arguments, i + 1))

\* Resolver::visit_call_expr
Resolver_visit_call_expr(R, callee, arguments) ==
    Try(resolve_expr(R, callee), LAMBDA c : resolve_arguments(c.I, arguments, 1))

\* Resolver::visit_var_stmt
Resolver_visit_var_stmt(R, name, expression) ==
    Try(declare(R, name), LAMBDA d :
    Try(IF expression = Expr_Literal(Nil) THEN Res(d.I, Ok(Nil))
        ELSE resolve_expr(d.I, expression),
        LAMBDA x : Res(define(x.I, name), Ok(Nil))))

\* a block that leaves its scope on the stack
Resolver_visit_block_stmt_open(R, stmts) ==
    Try(resolve_statements(begin_scope(R), stmts),
        LAMBDA x : Res(x.I, Ok(Nil)))

\* Resolver::visit_block_stmt
Resolver_visit_block_stmt(R, stmts) ==
    Try(resolve_statements(begin_scope(R), stmts),
        LAMBDA x : Res(end_scope(x.I), Ok(Nil)))

\* Resolver::visit_if_stmt
Resolver_visit_if_stmt(R, condition, then_branch, else_branch) ==
    Try(resolve_expr(R, condition), LAMBDA c :
    Try(resolve_statement(c.I, then_branch), LAMBDA th :
        IF else_branch.some THEN resolve_statement(th.I, else_branch.v)
        ELSE Res(th.I, Ok(Nil))))

\* Resolver::visit_while_stmt
Resolver_visit_while_stmt(R, condition, body) ==
    Try(resolve_expr(R, condition), LAMBDA c : resolve_statement(c.I, body))

\* Resolver::visit_fun_stmt
Resolver_visit_fun_stmt(R, name, params, body) ==
    Try(declare(R, name), LAMBDA d :
        resolve_function(define(d.I, name), name, params, body, "FUNCTION"))

\* Resolver::visit_return_stmt
Resolver_visit_return_stmt(R, keyword, value) ==
    IF R.current_function = "NONE"
    THEN Res(R, ResolveError(keyword, "Can't return from top-level code."))
    ELSE IF value = Expr_Literal(Nil) THEN Res(R, Ok(Nil))
         ELSE resolve_expr(R, value)

\* impl expr::Acceptor for Expr and impl stmt::Acceptor for Stmt, with the
\* Resolver as the visitor
Resolver_accept(R, node) ==
    IF "e" \in DOMAIN node
    THEN CASE node.e = "Binary" -> Resolver_visit_binary_expr(R, node.left, node.right)
           [] node.e = "Grouping" -> resolve_expr(R, node.expression)
           [] node.e = "Literal" -> Res(R, Ok(Nil))
           [] node.e = "Unary" -> resolve_expr(R, node.right)
           [] node.e = "Variable" -> Resolver_visit_var_expr(R, node.name)
           [] node.e = "Assign" -> Resolver_visit_assign_expr(R, node.name, node.value)
           [] node.e = "Logic" -> Resolver_visit_binary_expr(R, node.left, node.right)
           [] node.e = "Call" -> Resolver_visit_call_expr(R, node.callee, node.arguments)
    ELSE CASE node.s = "Expression" -> resolve_expr(R, node.expression)
           [] node.s = "Print" -> resolve_expr(R, node.expression)
           [] node.s = "Var" -> Resolver_visit_var_stmt(R, node.name, node.expression)
           [] node.s = "Block" -> Resolver_visit_block_stmt(R, node.stmts)
           [] node.s = "If" ->
                 Resolver_visit_if_stmt(R, node.condition, node.then_branch,
                                        node.else_branch)
           [] node.s = "While" -> Resolver_visit_while_stmt(R, node.condition, node.body)
           [] node.s = "Function" ->
                 Resolver_visit_fun_stmt(R, node.name, node.params, node.body)
           [] node.s = "Return" -> Resolver_visit_return_stmt(R, node.keyword, node.value)

-----------------------------------------------------------------------------
(* scanner.rs                                                               *)
(*                                                                          *)
(* S is the Scanner: source is the text as the sequence of its characters   *)
(* (ASCII), start and current count from 0 as in the source, diags are the  *)
(* lines error::lexer_error printed.  A token's pos is the place of its     *)
(* first character in the source.                                           *)

KEYWORDS ==
    [w \in {"and", "class", "else", "false", "for", "fun", "if", "nil", "or",
            "print", "return", "super", "this", "true", "var", "while"} |->
        CASE w = "and" -> "AND" [] w = "class" -> "CLASS" [] w = "else" -> "ELSE"
          [] w = "false" -> "FALSE" [] w = "for" -> "FOR" [] w = "fun" -> "FUN"
          [] w = "if" -> "IF" [] w = "nil" -> "NIL" [] w = "or" -> "OR"
          [] w = "print" -> "PRINT" [] w = "return" -> "RETURN"
          [] w = "super" -> "SUPER" [] w = "this" -> "THIS" [] w = "true" -> "TRUE"
          [] w = "var" -> "VAR" [] w = "while" -> "WHILE"]

\* char::is_ascii_digit, char::is_alphabetic and char::is_ascii_alphanumeric
\* on ASCII characters
AsciiDigits == <<"0", "1", "2", "3", "4", "5", "6", "7", "8", "9">>
is_ascii_digit(c) == \E i \in 1..10 : AsciiDigits[i] = c
is_alphabetic(c) ==
    c \in {"a", "b", "c", "d", "e", "f", "g", "h", "i", "j", "k", "l", "m",
           "n", "o", "p", "q", "r", "s", "t", "u", "v", "w", "x", "y", "z",
           "A", "B", "C", "D", "E", "F", "G", "H", "I", "J", "K", "L", "M",
           "N", "O", "P", "Q", "R", "S", "T", "U", "V", "W", "X", "Y", "Z"}
is_ascii_alphanumeric(c) == is_alphabetic(c) \/ is_ascii_digit(c)

\* the String of a slice of the source
RECURSIVE StringOf(_)
StringOf(chars) == IF chars = <<>> THEN "" ELSE Head(chars) \o StringOf(Tail(chars))

\* str::parse::<f32> of digits with an optional fraction
RECURSIVE Decimal(_, _, _, _)
Decimal(chars, i, numerator, denominator) ==
    IF i > Len(chars) THEN Quotient(numerator, denominator)
    ELSE IF chars[i] = "." THEN Decimal(chars, i + 1, numerator, 1)
    ELSE Decimal(chars, i + 1,
                 10 * numerator + (CHOOSE d \in 0..9 : AsciiDigits[d + 1] = chars[i]),
                 IF \E j \in 1..(i - 1) : chars[j] = "." THEN 10 * denominator
                 ELSE denominator)

Scanner_new(source) ==
    [source |-> source, tokens |-> <<>>, start |-> 0, current |-> 0, line |-> 1,
     diags |-> <<>>]

\* Scanner::is_at_end
Scanner_is_at_end(S) == S.current >= Len(S.source)

\* Scanner::peek
Scanner_peek(S) == IF Scanner_is_at_end(S) THEN "\n" ELSE S.source[S.current + 1]

\* Scanner::peek_next; "NUL" stands for '\0'
Scanner_peek_next(S) ==
    IF S.current + 1 >= Len(S.source) THEN "NUL" ELSE S.source[S.current + 2]

\* Scanner::advance; the char it returns is the one before the new current
Scanner_advance(S) == [S EXCEPT !.current = @ + 1]

\* Scanner::match_char
Scanner_match_char(S, expected) ==
    IF Scanner_is_at_end(S) \/ S.source[S.current + 1] # expected
    THEN [S |-> S, matched |-> FALSE]
    ELSE [S |-> Scanner_advance(S), matched |-> TRUE]

\* self.source.get(self.start..self.current)
Scanner_text(S) == SubSeq(S.source, S.start + 1, S.current)

\* Scanner::add_token_full
Scanner_add_token_full(S, token_type, literal) ==
    [S EXCEPT !.tokens = Append(@, Token(token_type, StringOf(Scanner_text(S)),
                                         literal, S.line, S.start + 1))]

\* Scanner::add_token
Scanner_add_token(S, token_type) == Scanner_add_token_full(S, token_type, Nil)

\* error::lexer_error
lexer_error(S, message) ==
    [S EXCEPT !.diags = Append(@, [line |-> S.line, message |-> message])]

\* scan_token, '/' '/': while self.peek() != '\n' && !self.is_at_end()
RECURSIVE Scanner_comment(_)
Scanner_comment(S) ==
    IF Scanner_peek(S) # "\n" /\ ~Scanner_is_at_end(S)
    THEN Scanner_comment(Scanner_advance(S))
    ELSE S

\* Scanner::string, its loop
RECURSIVE Scanner_string_loop(_)
Scanner_string_loop(S) ==
    IF Scanner_peek(S) # "\"" /\ ~Scanner_is_at_end(S)
    THEN Scanner_string_loop(Scanner_advance(
            IF Scanner_peek(S) = "\n" THEN [S EXCEPT !.line = @ + 1] ELSE S))
    ELSE S

\* Scanner::string
Scanner_string(S) ==
    LET T == Scanner_string_loop(S) IN
    IF Scanner_is_at_end(T) THEN lexer_error(T, "Unterminated string.")
    ELSE LET U == Scanner_advance(T) IN
         Scanner_add_token_full(U, "STRING",
            Str(StringOf(SubSeq(U.source, U.start + 2, U.current - 1))))

\* while self.peek().is_ascii_digit() { self.advance(); }
RECURSIVE Scanner_digits(_)
Scanner_digits(S) ==
    IF is_ascii_digit(Scanner_peek(S)) THEN Scanner_digits(Scanner_advance(S)) ELSE S

\* Scanner::number
Scanner_number(S) ==
    LET T == Scanner_digits(S)
        U == IF Scanner_peek(T) = "." /\ is_ascii_digit(Scanner_peek_next(T))
             THEN Scanner_digits(Scanner_advance(T))
             ELSE T
    IN Scanner_add_token_full(U, "NUMBER", Decimal(Scanner_text(U), 1, 0, 1))

\* Scanner::identifier, its loop
RECURSIVE Scanner_identifier_loop(_)
Scanner_identifier_loop(S) ==
    IF is_ascii_alphanumeric(Scanner_peek(S)) \/ Scanner_peek(S) = "_"
    THEN Scanner_identifier_loop(Scanner_advance(S))
    ELSE S

\* Scanner::identifier
Scanner_identifier(S) ==
    LET T == Scanner_identifier_loop(S)
        text == StringOf(Scanner_text(T))
    IN IF text \in DOMAIN KEYWORDS THEN Scanner_add_token(T, KEYWORDS[text])
       ELSE Scanner_add_token(T, "IDENTIFIER")

\* scan_token, the arms of one or two characters
Scanner_one_or_two(S, second, two, one) ==
    LET m == Scanner_match_char(S, second) IN
    IF m.matched THEN Scanner_add_token(m.S, two) ELSE Scanner_add_token(m.S, one)

\* Scanner::scan_token
Scanner_scan_token(S0) ==
    LET c == S0.source[S0.current + 1]
        S == Scanner_advance(S0)
    IN CASE c = "(" -> Scanner_add_token(S, "LeftParen")
         [] c = ")" -> Scanner_add_token(S, "RightParen")
         [] c = "{" -> Scanner_add_token(S, "LeftBrace")
         [] c = "}" -> Scanner_add_token(S, "RightBrace")
         [] c = "," -> Scanner_add_token(S, "COMMA")
         [] c = "." -> Scanner_add_token(S, "DOT")
         [] c = "-" -> Scanner_add_token(S, "MINUS")
         [] c = "+" -> Scanner_add_token(S, "PLUS")
         [] c = ";" -> Scanner_add_token(S, "SEMICOLON")
         [] c = "*" -> Scanner_add_token(S, "STAR")
         [] c = "!" -> Scanner_one_or_two(S, "=", "BangEqual", "BANG")
         [] c = "=" -> Scanner_one_or_two(S, "=", "EqualEqual", "EQUAL")
         [] c = "<" -> Scanner_one_or_two(S, "=", "LessEqual", "LESS")
         [] c = ">" -> Scanner_one_or_two(S, "=", "GreaterEqual", "GREATER")
         [] c = "/" ->
               LET m == Scanner_match_char(S, "/") IN
               IF m.matched THEN Scanner_comment(m.S)
               ELSE Scanner_add_token(m.S, "SLASH")
         [] c \in {" ", "\r", "\t"} -> S
         [] c = "\n" -> [S EXCEPT !.line = @ + 1]
         [] c = "\"" -> Scanner_string(S)
         [] c = "o" ->
               LET m == Scanner_match_char(S, "r") IN
               IF m.matched THEN Scanner_add_token(m.S, "OR")
               ELSE Scanner_identifier(m.S)
         [] OTHER ->
               IF is_ascii_digit(c) THEN Scanner_number(S)
               ELSE IF is_alphabetic(c) \/ c = "_" THEN Scanner_identifier(S)
               ELSE lexer_error(S, "Unexpected character.")

-----------------------------------------------------------------------------
(* parser.rs                                                                *)
(*                                                                          *)
(* P is the Parser: tokens and current are its fields (current counts from  *)
(* 0, as in the source; the model's sequences count from 1), diags are the  *)
(* lines error::parser_error printed, panicked tells that previous() was    *)
(* called at current 0, where self.current - 1 has no value.                *)

MaxArgs == 255

Parser_new(tokens) ==
    [tokens |-> tokens, current |-> 0, diags |-> <<>>, panicked |-> FALSE]

\* Parser::peek
Parser_peek(P) == P.tokens[P.current + 1]

\* Parser::previous
Parser_previous(P) == P.tokens[P.current]

\* Parser::is_at_end
Parser_is_at_end(P) == Parser_peek(P).token_type = "EOF"

\* Parser::check
Parser_check(P, token_type) ==
    IF Parser_is_at_end(P) THEN FALSE ELSE Parser_peek(P).token_type = token_type

\* Parser::advance; the token it returns is Parser_previous of the result,
\* which it asks for also when it did not move
Parser_advance(P) ==
    IF ~Parser_is_at_end(P) THEN [P EXCEPT !.current = @ + 1]
    ELSE IF P.current = 0 THEN [P EXCEPT !.panicked = TRUE]
    ELSE P

\* Parser::match_one_token
Parser_match_one_token(P, token_type) ==
    IF Parser_check(P, token_type)
    THEN [P |-> Parser_advance(P), matched |-> TRUE]
    ELSE [P |-> P, matched |-> FALSE]

\* Parser::match_token
RECURSIVE Parser_match_token_loop(_, _, _)
Parser_match_token_loop(P, types, i) ==
    IF i > Len(types) THEN [P |-> P, matched |-> FALSE]
    ELSE LET m == Parser_match_one_token(P, types[i]) IN
         IF m.matched THEN m ELSE Parser_match_token_loop(P, types, i + 1)

Parser_match_token(P, types) == Parser_match_token_loop(P, types, 1)

\* error::parser_error and error::report: the line printed
parser_error(token, message) ==
    [line |-> token.line,
     place |-> IF token.token_type = "EOF" THEN " at end" ELSE "",
     message |-> message]

\* Parser::error; Report is the same without the Err it returns
Parser_report(P, token, message) ==
    [P EXCEPT !.diags = Append(@, parser_error(token, message))]

Parser_error(P, token, message) ==
    Res(Parser_report(P, token, message), ParseError(message))

\* Parser::consume
Parser_consume(P, token_type, message) ==
    IF Parser_check(P, token_type)
    THEN LET Q == Parser_advance(P) IN Res(Q, Ok(Parser_previous(Q)))
    ELSE Parser_error(P, Parser_peek(P), message)

\* Parser::synchronize, its loop
RECURSIVE Parser_synchronize_loop(_)
Parser_synchronize_loop(P) ==
    IF Parser_is_at_end(P) THEN P
    ELSE IF Parser_previous(P).token_type = "SEMICOLON" THEN P
    ELSE IF Parser_peek(P).token_type \in
               {"CLASS", "FUN", "VAR", "FOR", "IF", "WHILE", "PRINT", "RETURN"}
         THEN P
         ELSE Parser_synchronize_loop(Parser_advance(P))

\* a synchronize that skips one token only
Parser_synchronize_once(P) == Parser_advance(P)

\* Parser::synchronize
Parser_synchronize(P) == Parser_synchronize_loop(Parser_advance(P))

RECURSIVE Parser_self(_, _, _)


\* Parser::primary
Parser_primary(P) ==
    LET Q == Parser_advance(P) IN
    CASE Parser_check(P, "FALSE") -> Res(Q, Ok(Expr_Literal(Bool(FALSE))))
      [] Parser_check(P, "TRUE") -> Res(Q, Ok(Expr_Literal(Bool(TRUE))))
      [] Parser_check(P, "NIL") -> Res(Q, Ok(Expr_Literal(Nil)))
      [] Parser_check(P, "STRING") -> Res(Q, Ok(Expr_Literal(Parser_previous(Q).literal)))
      [] Parser_check(P, "NUMBER") -> Res(Q, Ok(Expr_Literal(Parser_previous(Q).literal)))
      [] Parser_check(P, "IDENTIFIER") -> Res(Q, Ok(Expr_Variable(Parser_previous(Q))))
      [] Parser_check(P, "LeftParen") ->
            Try(Parser_self("expression", Q, None), LAMBDA expr :
            Try(Parser_consume(expr.I, "RightParen", "Expect ')' after expression."),
                LAMBDA c : Res(c.I, Ok(Expr_Grouping(expr.r.v)))))
      [] OTHER -> Parser_error(P, Parser_peek(P), "Expect expression.")

\* Parser::finish_call, the loop over the arguments after the first
Parser_arguments_loop(P, arguments) ==
    LET m == Parser_match_one_token(P, "COMMA") IN
    IF ~m.matched THEN Res(P, Ok(arguments))
    ELSE Try(Parser_self("expression", IF Len(arguments) >= MaxArgs
                               THEN Parser_report(m.P, Parser_peek(m.P),
                                                  "Can't have more than 255 arguments.")
                               ELSE m.P, None),
             LAMBDA x : Parser_self("arguments_loop", x.I, Append(arguments, x.r.v)))

\* Parser::finish_call
Parser_finish_call(P, callee) ==
    Try(IF ~Parser_check(P, "RightParen")
        THEN Try(Parser_self("expression", P, None),
                 LAMBDA x : Parser_self("arguments_loop", x.I, <<x.r.v>>))
        ELSE Res(P, Ok(<<>>)),
        LAMBDA arguments :
    Try(Parser_consume(arguments.I, "RightParen", "Expect ')' after arguments."),
        LAMBDA paren : Res(paren.I, Ok(Expr_Call(callee, paren.r.v, arguments.r.v)))))

\* Parser::call
Parser_call_loop(P, expr) ==
    LET m == Parser_match_one_token(P, "LeftParen") IN
    IF ~m.matched THEN Res(P, Ok(expr))
    ELSE Try(Parser_self("finish_call", m.P, expr),
             LAMBDA x : Parser_self("call_loop", x.I, x.r.v))

Parser_call(P) ==
    Try(Parser_self("primary", P, None), LAMBDA x : Parser_self("call_loop", x.I, x.r.v))

\* Parser::unary
Parser_unary(P) ==
    LET m == Parser_match_token(P, <<"BANG", "MINUS">>) IN
    IF m.matched
    THEN Try(Parser_self("unary", m.P, None),
             LAMBDA right : Res(right.I, Ok(Expr_Unary(Parser_previous(m.P), right.r.v))))
    ELSE Parser_self("call", P, None)

\* Parser::factor
Parser_factor_loop(P, expr) ==
    LET m == Parser_match_token(P, <<"SLASH", "STAR">>) IN
    IF ~m.matched THEN Res(P, Ok(expr))
    ELSE Try(Parser_self("unary", m.P, None), LAMBDA right :
             Parser_self("factor_loop", right.I,
                Expr_Binary(expr, Parser_previous(m.P), right.r.v)))

Parser_factor(P) ==
    Try(Parser_self("unary", P, None), LAMBDA x : Parser_self("factor_loop", x.I, x.r.v))

\* Parser::term
Parser_term_loop(P, expr) ==
    LET m == Parser_match_token(P, <<"MINUS", "PLUS">>) IN
    IF ~m.matched THEN Res(P, Ok(expr))
    ELSE Try(Parser_self("factor", m.P, None), LAMBDA right :
             Parser_self("term_loop", right.I,
                Expr_Binary(expr, Parser_previous(m.P), right.r.v)))

Parser_term(P) ==
    Try(Parser_self("factor", P, None), LAMBDA x : Parser_self("term_loop", x.I, x.r.v))

\* Parser::comparison
Parser_comparison_loop(P, left) ==
    LET m == Parser_match_token(P, <<"GREATER", "GreaterEqual", "LESS", "LessEqual">>) IN
    IF ~m.matched THEN Res(P, Ok(left))
    ELSE Try(Parser_self("term", m.P, None), LAMBDA right :
             Parser_self("comparison_loop", right.I,
                Expr_Binary(left, Parser_previous(m.P), right.r.v)))

Parser_comparison(P) ==
    Try(Parser_self("term", P, None), LAMBDA x : Parser_self("comparison_loop", x.I, x.r.v))

\* Parser::equality
Parser_equality_loop(P, left) ==
    LET m == Parser_match_token(P, <<"BangEqual", "EqualEqual">>) IN
    IF ~m.matched THEN Res(P, Ok(left))
    ELSE Try(Parser_self("comparison", m.P, None), LAMBDA right :
             Parser_self("equality_loop", right.I,
                Expr_Binary(left, Parser_previous(m.P), right.r.v)))

Parser_equality(P) ==
    Try(Parser_self("comparison", P, None), LAMBDA x : Parser_self("equality_loop", x.I, x.r.v))

\* Parser::and
Parser_and_loop(P, expr) ==
    LET m == Parser_match_one_token(P, "AND") IN
    IF ~m.matched THEN Res(P, Ok(expr))
    ELSE Try(Parser_self("equality", m.P, None), LAMBDA right :
             Parser_self("and_loop", right.I,
                Expr_Logic(expr, Parser_previous(m.P), right.r.v)))

Parser_and(P) ==
    Try(Parser_self("equality", P, None), LAMBDA x : Parser_self("and_loop", x.I, x.r.v))

\* Parser::or
Parser_or_loop(P, expr) ==
    LET m == Parser_match_one_token(P, "OR") IN
    IF ~m.matched THEN Res(P, Ok(expr))
    ELSE Try(Parser_self("and", m.P, None), LAMBDA right :
             Parser_self("or_loop", right.I,
                Expr_Logic(expr, Parser_previous(m.P), right.r.v)))

Parser_or(P) ==
    Try(Parser_self("and", P, None), LAMBDA x : Parser_self("or_loop", x.I, x.r.v))

\* an assignment that reports a bad target at the token that follows the value
Parser_assignment_rest_at_peek(expr) ==
    LET m == Parser_match_one_token(expr.I, "EQUAL") IN
    IF ~m.matched THEN expr
    ELSE Try(Parser_self("assignment", m.P, None), LAMBDA value :
             IF expr.r.v.e = "Variable"
             THEN Res(value.I, Ok(Expr_Assign(expr.r.v.name, value.r.v)))
             ELSE Parser_error(value.I, Parser_peek(value.I),
                               "Invalid assignment target."))

\* Parser::assignment, after the left side
Parser_assignment_rest(expr) ==
    LET m == Parser_match_one_token(expr.I, "EQUAL") IN
    IF ~m.matched THEN expr
    ELSE Try(Parser_self("assignment", m.P, None), LAMBDA value :
             IF expr.r.v.e = "Variable"
             THEN Res(value.I, Ok(Expr_Assign(expr.r.v.name, value.r.v)))
             ELSE Parser_error(value.I, Parser_previous(m.P),
                               "Invalid assignment target."))

\* Parser::assignment
Parser_assignment(P) == Try(Parser_self("or", P, None), LAMBDA expr : Parser_assignment_rest(expr))

\* Parser::expression
Parser_expression(P) == Parser_self("assignment", P, None)

\* Parser::print_statement
Parser_print_statement(P) ==
    Try(Parser_self("expression", P, None), LAMBDA value :
    Try(Parser_consume(value.I, "SEMICOLON", "Expect ';' after value."),
        LAMBDA c : Res(c.I, Ok(Stmt_Print(value.r.v)))))

\* Parser::expression_statement
Parser_expression_statement(P) ==
    Try(Parser_self("expression", P, None), LAMBDA expr :
    Try(Parser_consume(expr.I, "SEMICOLON", "Expect ';' after expression."),
        LAMBDA c : Res(c.I, Ok(Stmt_Expression(expr.r.v)))))

\* Parser::var_declaration, after the name
Parser_var_initializer(P) ==
    LET m == Parser_match_one_token(P, "EQUAL") IN
    IF m.matched THEN Parser_self("expression", m.P, None)
    ELSE Res(m.P, Ok(Expr_Literal(Nil)))

\* Parser::var_declaration
Parser_var_declaration(P) ==
    Try(Parser_consume(P, "IDENTIFIER", "Expect variable name."), LAMBDA name :
    Try(Parser_self("var_initializer", name.I, None), LAMBDA initializer :
    Try(Parser_consume(initializer.I, "SEMICOLON",
                       "Expect ';' after variable declaration."),
        LAMBDA c : Res(c.I, Ok(Stmt_Var(name.r.v, initializer.r.v))))))

\* Parser::block
Parser_block_loop(P, statements) ==
    IF ~Parser_check(P, "RightBrace") /\ ~Parser_is_at_end(P)
    THEN Try(Parser_self("declaration", P, None),
             LAMBDA d : Parser_self("block_loop", d.I, Append(statements, d.r.v)))
    ELSE Try(Parser_consume(P, "RightBrace", "Expect '}' after block."),
             LAMBDA c : Res(c.I, Ok(statements)))

Parser_block(P) == Parser_self("block_loop", P, <<>>)

\* Parser::if_statement, after the then branch
Parser_else_branch(P) ==
    LET m == Parser_match_one_token(P, "ELSE") IN
    IF ~m.matched THEN Res(m.P, Ok(None))
    ELSE Try(Parser_self("statement", m.P, None), LAMBDA s : Res(s.I, Ok(Some(s.r.v))))

\* Parser::if_statement
Parser_if_statement(P) ==
    Try(Parser_consume(P, "LeftParen", "Expect '(' after 'if'."), LAMBDA c1 :
    Try(Parser_self("expression", c1.I, None), LAMBDA condition :
    Try(Parser_consume(condition.I, "RightParen", "Expect ')' after if condition."),
        LAMBDA c2 :
    Try(Parser_self("statement", c2.I, None), LAMBDA then_branch :
    Try(Parser_self("else_branch", then_branch.I, None), LAMBDA else_branch :
        Res(else_branch.I,
            Ok(Stmt_If(condition.r.v, then_branch.r.v, else_branch.r.v))))))))

\* Parser::while_statement
Parser_while_statement(P) ==
    Try(Parser_consume(P, "LeftParen", "Expect '(' after 'while'."), LAMBDA c1 :
    Try(Parser_self("expression", c1.I, None), LAMBDA condition :
    Try(Parser_consume(condition.I, "RightParen", "Expect ')' after condition."),
        LAMBDA c2 :
    Try(Parser_self("statement", c2.I, None), LAMBDA body :
        Res(body.I, Ok(Stmt_While(condition.r.v, body.r.v)))))))

\* Parser::for_statement, the initializer clause
Parser_for_initializer(P) ==
    IF Parser_check(P, "SEMICOLON") THEN Res(Parser_advance(P), Ok(None))
    ELSE IF Parser_check(P, "VAR")
         THEN Try(Parser_self("var_declaration", Parser_advance(P), None),
                  LAMBDA s : Res(s.I, Ok(Some(s.r.v))))
         ELSE Try(Parser_self("expression_statement", P, None),
                  LAMBDA s : Res(s.I, Ok(Some(s.r.v))))

\* Parser::for_statement, the condition clause
Parser_for_condition(P) ==
    IF ~Parser_check(P, "SEMICOLON") THEN Parser_self("expression", P, None)
    ELSE Res(P, Ok(Expr_Literal(Bool(TRUE))))

\* Parser::for_statement, the increment clause
Parser_for_increment(P) ==
    IF ~Parser_check(P, "RightParen")
    THEN Try(Parser_self("expression", P, None), LAMBDA x : Res(x.I, Ok(Some(x.r.v))))
    ELSE Res(P, Ok(None))

\* a for loop whose increment runs before its body
Parser_for_desugar_inc_first(initializer, condition, increment, body) ==
    LET body1 == IF increment.some
                 THEN Stmt_Block(<<Stmt_Expression(increment.v), body>>)
                 ELSE body
        body2 == Stmt_While(condition, body1)
    IN IF initializer.some THEN Stmt_Block(<<initializer.v, body2>>) ELSE body2

\* Parser::for_statement, the loop it builds
Parser_for_desugar(initializer, condition, increment, body) ==
    LET body1 == IF increment.some
                 THEN Stmt_Block(<<body, Stmt_Expression(increment.v)>>)
                 ELSE body
        body2 == Stmt_While(condition, body1)
    IN IF initializer.some THEN Stmt_Block(<<initializer.v, body2>>) ELSE body2

\* Parser::for_statement
Parser_for_statement(P) ==
    Try(Parser_consume(P, "LeftParen", "Expect '(' after 'for'."), LAMBDA c1 :
    Try(Parser_self("for_initializer", c1.I, None), LAMBDA initializer :
    Try(Parser_self("for_condition", initializer.I, None), LAMBDA condition :
    Try(Parser_consume(condition.I, "SEMICOLON", "Expect ';' after loop condition."),
        LAMBDA c2 :
    Try(Parser_self("for_increment", c2.I, None), LAMBDA increment :
    Try(Parser_consume(increment.I, "RightParen", "Expect ')' after for clauses."),
        LAMBDA c3 :
    Try(Parser_self("statement", c3.I, None), LAMBDA body :
        Res(body.I, Ok(Parser_for_desugar(initializer.r.v, condition.r.v,
                                          increment.r.v, body.r.v))))))))))

\* Parser::statement
Parser_statement(P) ==
    CASE Parser_check(P, "FOR") -> Parser_self("for_statement", Parser_advance(P), None)
      [] Parser_check(P, "IF") -> Parser_self("if_statement", Parser_advance(P), None)
      [] Parser_check(P, "PRINT") -> Parser_self("print_statement", Parser_advance(P), None)
      [] Parser_check(P, "WHILE") -> Parser_self("while_statement", Parser_advance(P), None)
      [] Parser_check(P, "LeftBrace") ->
            Try(Parser_self("block", Parser_advance(P), None),
                LAMBDA b : Res(b.I, Ok(Stmt_Block(b.r.v))))
      [] OTHER -> Parser_self("expression_statement", P, None)

\* Parser::function, "if params.len() >= 255 { Self::error(..) }"
Parser_params_limit(P, params) ==
    IF Len(params) >= MaxArgs
    THEN Parser_report(P, Parser_peek(P), "Can't have more than 255 arguments.")
    ELSE P

\* Parser::function: the j-th iteration (from 0) of the loop over the
\* parameters finds its comma and its name
Parser_params_pair(P, j) ==
    /\ P.current + 2 * j + 2 <= Len(P.tokens)
    /\ P.tokens[P.current + 2 * j + 1].token_type = "COMMA"
    /\ P.tokens[P.current + 2 * j + 2].token_type = "IDENTIFIER"

\* Parser::function: what the first n iterations of the loop reported; the
\* iterations from MaxArgs - Len(params) on find params.len() >= 255
Parser_params_reports(P, params, n) ==
    LET first == IF MaxArgs > Len(params) THEN MaxArgs - Len(params) ELSE 0 IN
    [P EXCEPT !.diags = @ \o
        [r \in 1..(IF n > first THEN n - first ELSE 0) |->
            parser_error(P.tokens[P.current + 2 * (first + r - 1) + 2],
                         "Can't have more than 255 arguments.")]]

\* Parser::function, the loop over the parameters after the first: every
\* iteration that succeeds takes a comma and a name, so the loop runs as
\* many times as such pairs follow each other, and then either finds no
\* comma and ends, or finds a comma without a name and fails
Parser_params_loop(P, params) ==
    LET n == CHOOSE k \in 0..Len(P.tokens) :
                /\ \A j \in 0..(k - 1) : Parser_params_pair(P, j)
                /\ ~Parser_params_pair(P, k)
        Q == [Parser_params_reports(P, params, n) EXCEPT !.current = @ + 2 * n]
        all == params \o [j \in 1..n |-> P.tokens[P.current + 2 * j]]
    IN IF Parser_check(Q, "COMMA")
       THEN Parser_consume(Parser_params_limit(Parser_advance(Q), all),
                           "IDENTIFIER", "Expect parameter name.")
       ELSE Res(Q, Ok(all))

\* Parser::function, the parameter list
Parser_params(P) ==
    IF ~Parser_check(P, "RightParen")
    THEN Try(Parser_consume(P, "IDENTIFIER", "Expect parameter name."),
             LAMBDA c : Parser_params_loop(c.I, <<c.r.v>>))
    ELSE Res(P, Ok(<<>>))

\* Parser::function
Parser_function(P, fun) ==
    Try(Parser_consume(P, "IDENTIFIER", "Expect " \o fun \o " name."), LAMBDA name :
    Try(Parser_consume(name.I, "LeftParen", "Expect '(' after " \o fun \o " name."),
        LAMBDA c1 :
    Try(Parser_params(c1.I), LAMBDA params :
    Try(Parser_consume(params.I, "RightParen", "Expect ')' after parameters."),
        LAMBDA c2 :
    Try(Parser_consume(c2.I, "LeftBrace", "Expect '{' before " \o fun \o " body."),
        LAMBDA c3 :
    Try(Parser_self("block", c3.I, None), LAMBDA body :
        Res(body.I, Ok(Stmt_Function(name.r.v, params.r.v, body.r.v)))))))))

\* a declaration that goes back to the first token when it fails
Parser_declaration_result_rewind(result) ==
    IF IsOk(result) THEN result
    ELSE Res([Parser_synchronize(result.I) EXCEPT !.current = 0], result.r)

\* Parser::declaration, its match on the result
Parser_declaration_result(result) ==
    IF IsOk(result) THEN result
    ELSE Res(Parser_synchronize(result.I), result.r)

\* Parser::declaration
Parser_declaration(P) ==
    Parser_declaration_result(
        IF Parser_check(P, "VAR") THEN Parser_self("var_declaration", Parser_advance(P), None)
        ELSE IF Parser_check(P, "FUN") THEN Parser_self("function", Parser_advance(P), "function")
        ELSE Parser_self("statement", P, None))

\* self.method(..): the methods of the recursive descent call each other
\* through this operator; a is the method's argument, None when it has none
Parser_self(method, P, a) ==
    CASE method = "primary" -> Parser_primary(P)
      [] method = "arguments_loop" -> Parser_arguments_loop(P, a)
      [] method = "finish_call" -> Parser_finish_call(P, a)
      [] method = "call_loop" -> Parser_call_loop(P, a)
      [] method = "call" -> Parser_call(P)
      [] method = "unary" -> Parser_unary(P)
      [] method = "factor_loop" -> Parser_factor_loop(P, a)
      [] method = "factor" -> Parser_factor(P)
      [] method = "term_loop" -> Parser_term_loop(P, a)
      [] method = "term" -> Parser_term(P)
      [] method = "comparison_loop" -> Parser_comparison_loop(P, a)
      [] method = "comparison" -> Parser_comparison(P)
      [] method = "equality_loop" -> Parser_equality_loop(P, a)
      [] method = "equality" -> Parser_equality(P)
      [] method = "and_loop" -> Parser_and_loop(P, a)
      [] method = "and" -> Parser_and(P)
      [] method = "or_loop" -> Parser_or_loop(P, a)
      [] method = "or" -> Parser_or(P)
      [] method = "assignment" -> Parser_assignment(P)
      [] method = "expression" -> Parser_expression(P)
      [] method = "print_statement" -> Parser_print_statement(P)
      [] method = "expression_statement" -> Parser_expression_statement(P)
      [] method = "var_initializer" -> Parser_var_initializer(P)
      [] method = "var_declaration" -> Parser_var_declaration(P)
      [] method = "block_loop" -> Parser_block_loop(P, a)
      [] method = "block" -> Parser_block(P)
      [] method = "else_branch" -> Parser_else_branch(P)
      [] method = "if_statement" -> Parser_if_statement(P)
      [] method = "while_statement" -> Parser_while_statement(P)
      [] method = "for_initializer" -> Parser_for_initializer(P)
      [] method = "for_condition" -> Parser_for_condition(P)
      [] method = "for_increment" -> Parser_for_increment(P)
      [] method = "for_statement" -> Parser_for_statement(P)
      [] method = "statement" -> Parser_statement(P)
      [] method = "function" -> Parser_function(P, a)
      [] method = "declaration" -> Parser_declaration(P)

\* Parser::parse: while !self.is_at_end() { statements.push(self.declaration()?) }
RECURSIVE Parser_parse_loop(_, _)
Parser_parse_loop(P, statements) ==
    IF Parser_is_at_end(P) THEN Res(P, Ok(statements))
    ELSE Try(Parser_self("declaration", P, None),
             LAMBDA d : Parser_parse_loop(d.I, Append(statements, d.r.v)))

Parser_parse(P) == Parser_parse_loop(P, <<>>)

-----------------------------------------------------------------------------
(* The programs the interpreter is run on.  A program is a statement list   *)
(* as the parser of a complete Lox builds it; each family draws its         *)
(* parameters from a small set.  All tokens are on line 1 unless said.      *)

Lexeme(token_type) ==
    CASE token_type = "PLUS" -> "+" [] token_type = "MINUS" -> "-"
      [] token_type = "STAR" -> "*" [] token_type = "SLASH" -> "/"
      [] token_type = "GREATER" -> ">" [] token_type = "GreaterEqual" -> ">="
      [] token_type = "LESS" -> "<" [] token_type = "LessEqual" -> "<="
      [] token_type = "EqualEqual" -> "==" [] token_type = "BangEqual" -> "!="
      [] token_type = "BANG" -> "!" [] token_type = "OR" -> "or"
      [] token_type = "AND" -> "and" [] token_type = "RightParen" -> ")"
      [] token_type = "RETURN" -> "return"

ID(name, pos) == Token("IDENTIFIER", name, Nil, 1, pos)
IDL(name, line, pos) == Token("IDENTIFIER", name, Nil, line, pos)
OP(token_type, pos) == Token(token_type, Lexeme(token_type), Nil, 1, pos)
V(name, pos) == Expr_Variable(ID(name, pos))
VL(name, line, pos) == Expr_Variable(IDL(name, line, pos))
S(s) == Expr_Literal(Str(s))
N(n) == Expr_Literal(Num(n))
CallOf(name, pos, arguments) == Expr_Call(V(name, pos), OP("RightParen", pos + 1), arguments)
ReturnOf(pos, value) == Stmt_Return(OP("RETURN", pos), value)

LiteralValues == {Nil, Bool(TRUE), Bool(FALSE), Num(1), Num(2), Str("a"), Str("b")}
Operands == LiteralValues \cup {[t |-> "Callable", name |-> "f"],
                                [t |-> "Callable", name |-> "clock"]}
OperandExpr(o, pos) == IF o.t = "Callable" THEN V(o.name, pos) ELSE Expr_Literal(o)

BinaryOps == {"PLUS", "MINUS", "STAR", "SLASH", "GREATER", "GreaterEqual",
              "LESS", "LessEqual", "EqualEqual", "BangEqual"}

\* fun f() {} print X op Y;
BinaryProgram(op, x, y) ==
    [family |-> "binary", op |-> op, x |-> x, y |-> y,
     stmts |-> << Stmt_Function(ID("f", 1), <<>>, <<>>),
                  Stmt_Print(Expr_Binary(OperandExpr(x, 2), OP(op, 3),
                                         OperandExpr(y, 4))) >>]

LogicValues == {Nil, Bool(FALSE), Bool(TRUE), Num(0), Str(""), Str("s")}

\* var l; var r; var v = (l = X) op (r = Y);
LogicProgram(op, x, y) ==
    [family |-> "logic", op |-> op, x |-> x, y |-> y,
     stmts |-> << Stmt_Var(ID("l", 1), Expr_Literal(Nil)),
                  Stmt_Var(ID("r", 2), Expr_Literal(Nil)),
                  Stmt_Var(ID("v", 3),
                     Expr_Logic(Expr_Grouping(Expr_Assign(ID("l", 4), Expr_Literal(x))),
                                OP(op, 5),
                                Expr_Grouping(Expr_Assign(ID("r", 6), Expr_Literal(y))))) >>]

\* var c; if (c = X) print "then"; [else print "else";] print "end";
IfProgram(x, has_else) ==
    [family |-> "if", x |-> x, has_else |-> has_else,
     stmts |-> << Stmt_Var(ID("c", 1), Expr_Literal(Nil)),
                  Stmt_If(Expr_Assign(ID("c", 2), Expr_Literal(x)),
                          Stmt_Print(S("then")),
                          IF has_else THEN Some(Stmt_Print(S("else"))) ELSE None),
                  Stmt_Print(S("end")) >>]

ParamNames == <<"p", "q", "r", "s">>

\* fun f(p, q, ..) { print "body"; } f(1, 2, ..);   with n parameters, m arguments
\* clock(1, 2, ..);                                 with m arguments
ArityProgram(callee, n, m) ==
    [family |-> "arity", callee |-> callee, n |-> n, m |-> m,
     stmts |-> << Stmt_Function(ID("f", 1),
                     [i \in 1..n |-> ID(ParamNames[i], 1 + i)],
                     << Stmt_Print(S("body")) >>),
                  Stmt_Print(CallOf(callee, 10, [i \in 1..m |-> N(i)])),
                  Stmt_Print(S("end")) >>]

ClosureNames == {"incA", "getA", "incB", "getB"}

RECURSIVE SeqsUpTo(_, _)
SeqsUpTo(set, n) ==
    IF n = 0 THEN {<<>>}
    ELSE LET shorter == SeqsUpTo(set, n - 1) IN
         shorter \cup {Append(q, x) : q \in shorter, x \in set}

\* var incA; var getA; var incB; var getB;
\* fun make(first) {
\*   var i = 0;
\*   fun inc() { i = i + 1; print i; }
\*   fun get() { print i; }
\*   if (first) { incA = inc; getA = get; }
\*   if (!first) { incB = inc; getB = get; }
\* }
\* make(true); make(false);
\* <call 1>(); <call 2>(); ..
ClosureProgram(calls) ==
    [family |-> "closure", calls |-> calls,
     stmts |->
       << Stmt_Var(ID("incA", 1), Expr_Literal(Nil)),
          Stmt_Var(ID("getA", 2), Expr_Literal(Nil)),
          Stmt_Var(ID("incB", 3), Expr_Literal(Nil)),
          Stmt_Var(ID("getB", 4), Expr_Literal(Nil)),
          Stmt_Function(ID("make", 5), << ID("first", 6) >>,
            << Stmt_Var(ID("i", 7), N(0)),
               Stmt_Function(ID("inc", 8), <<>>,
                 << Stmt_Expression(Expr_Assign(ID("i", 9),
                       Expr_Binary(V("i", 10), OP("PLUS", 11), N(1)))),
                    Stmt_Print(V("i", 13)) >>),
               Stmt_Function(ID("get", 14), <<>>, << Stmt_Print(V("i", 16)) >>),
               Stmt_If(V("first", 17),
                  Stmt_Block(<< Stmt_Expression(Expr_Assign(ID("incA", 18), V("inc", 19))),
                                Stmt_Expression(Expr_Assign(ID("getA", 20), V("get", 21))) >>),
                  None),
               Stmt_If(Expr_Unary(OP("BANG", 22), V("first", 23)),
                  Stmt_Block(<< Stmt_Expression(Expr_Assign(ID("incB", 24), V("inc", 25))),
                                Stmt_Expression(Expr_Assign(ID("getB", 26), V("get", 27))) >>),
                  None) >>),
          Stmt_Expression(CallOf("make", 28, << Expr_Literal(Bool(TRUE)) >>)),
          Stmt_Expression(CallOf("make", 30, << Expr_Literal(Bool(FALSE)) >>)) >>
       \o [j \in 1..Len(calls) |-> Stmt_Expression(CallOf(calls[j], 30 + 2 * j, <<>>))]]

\* var a = "g"; { var a = "l"; print a; { print a; } }
\* with the last reference to a on the given line
ShadowProgram(line) ==
    [family |-> "shadow", line |-> line,
     stmts |-> << Stmt_Var(ID("a", 1), S("g")),
                  Stmt_Block(<< Stmt_Var(ID("a", 2), S("l")),
                                Stmt_Print(V("a", 3)),
                                Stmt_Block(<< Stmt_Print(VL("a", line, 4)) >>) >>) >>]

\* 1: var x = "global"; fun f() { print x; } fun g() { var x = "local"; f(); } g();
\* 2: { var x = "outer"; fun f() { print x; } { var x = "inner"; f(); } }
\* 3: fun r(n) { if (n > 0) r(n - 1); print n; } r(2);
\* 4: var a = "global"; { fun show() { print a; } show(); var a = "local"; show(); }
\* 5: fun e() { { { print 1 - nil; } } print "no"; }
\*    fun w() { while (true) { { return 7; } } print "no"; }
\*    { { print "in"; } }  { e(); print "no"; }  { print w(); }  print "end";
\* 6: var a = 1; { var a = 2; print a; } print a;
\* 7: return;
ScopeStmts ==
    << << Stmt_Var(ID("x", 1), S("global")),
          Stmt_Function(ID("f", 2), <<>>, << Stmt_Print(V("x", 3)) >>),
          Stmt_Function(ID("g", 4), <<>>,
             << Stmt_Var(ID("x", 5), S("local")),
                Stmt_Expression(CallOf("f", 6, <<>>)) >>),
          Stmt_Expression(CallOf("g", 8, <<>>)) >>,
       << Stmt_Block(<< Stmt_Var(ID("x", 1), S("outer")),
                        Stmt_Function(ID("f", 2), <<>>, << Stmt_Print(V("x", 3)) >>),
                        Stmt_Block(<< Stmt_Var(ID("x", 4), S("inner")),
                                      Stmt_Expression(CallOf("f", 5, <<>>)) >>) >>) >>,
       << Stmt_Function(ID("r", 1), << ID("n", 2) >>,
             << Stmt_If(Expr_Binary(V("n", 3), OP("GREATER", 4), N(0)),
                        Stmt_Expression(CallOf("r", 5,
                           << Expr_Binary(V("n", 7), OP("MINUS", 8), N(1)) >>)),
                        None),
                Stmt_Print(V("n", 9)) >>),
          Stmt_Expression(CallOf("r", 10, << N(2) >>)) >>,
       << Stmt_Var(ID("a", 1), S("global")),
          Stmt_Block(<< Stmt_Function(ID("show", 2), <<>>, << Stmt_Print(V("a", 3)) >>),
                        Stmt_Expression(CallOf("show", 4, <<>>)),
                        Stmt_Var(ID("a", 6), S("local")),
                        Stmt_Expression(CallOf("show", 7, <<>>)) >>) >>,
       << Stmt_Function(ID("e", 1), <<>>,
             << Stmt_Block(<< Stmt_Block(<< Stmt_Print(
                   Expr_Binary(N(1), OP("MINUS", 2), Expr_Literal(Nil))) >>) >>),
                Stmt_Print(S("no")) >>),
          Stmt_Function(ID("w", 3), <<>>,
             << Stmt_While(Expr_Literal(Bool(TRUE)),
                   Stmt_Block(<< Stmt_Block(<< ReturnOf(4, N(7)) >>) >>)),
                Stmt_Print(S("no")) >>),
          Stmt_Block(<< Stmt_Block(<< Stmt_Print(S("in")) >>) >>),
          Stmt_Block(<< Stmt_Expression(CallOf("e", 5, <<>>)), Stmt_Print(S("no")) >>),
          Stmt_Block(<< Stmt_Print(CallOf("w", 7, <<>>)) >>),
          Stmt_Print(S("end")) >>,
       << Stmt_Var(ID("a", 1), N(1)),
          Stmt_Block(<< Stmt_Var(ID("a", 2), N(2)), Stmt_Print(V("a", 3)) >>),
          Stmt_Print(V("a", 4)) >>,
       << ReturnOf(1, Expr_Literal(Nil)) >> >>

ScopeProgram(id) == [family |-> "scope", id |-> id, stmts |-> ScopeStmts[id]]

\* 1: fun f() { { if (true) { while (true) { return "r"; print "no"; } print "no"; }
\*               print "no"; } print "no"; }
\*    print f();
\* 2: fun inner() { { return "in"; } print "no"; }
\*    fun outer() { print inner(); print "after"; return "out"; print "no"; }
\*    print outer();
\* 3: fun g() { print "body"; }  print g();
\* 4: fun h() { return; print "no"; }  print h();
\* 5: fun k(x) { if (x) return "t"; else return "e"; }  print k(true); print k(false);
ReturnStmts ==
    << << Stmt_Function(ID("f", 1), <<>>,
             << Stmt_Block(<<
                   Stmt_If(Expr_Literal(Bool(TRUE)),
                      Stmt_Block(<<
                         Stmt_While(Expr_Literal(Bool(TRUE)),
                            Stmt_Block(<< ReturnOf(2, S("r")), Stmt_Print(S("no")) >>)),
                         Stmt_Print(S("no")) >>),
                      None),
                   Stmt_Print(S("no")) >>),
                Stmt_Print(S("no")) >>),
          Stmt_Print(CallOf("f", 3, <<>>)) >>,
       << Stmt_Function(ID("inner", 1), <<>>,
             << Stmt_Block(<< ReturnOf(2, S("in")) >>), Stmt_Print(S("no")) >>),
          Stmt_Function(ID("outer", 3), <<>>,
             << Stmt_Print(CallOf("inner", 4, <<>>)),
                Stmt_Print(S("after")),
                ReturnOf(6, S("out")),
                Stmt_Print(S("no")) >>),
          Stmt_Print(CallOf("outer", 7, <<>>)) >>,
       << Stmt_Function(ID("g", 1), <<>>, << Stmt_Print(S("body")) >>),
          Stmt_Print(CallOf("g", 2, <<>>)) >>,
       << Stmt_Function(ID("h", 1), <<>>,
             << ReturnOf(2, Expr_Literal(Nil)), Stmt_Print(S("no")) >>),
          Stmt_Print(CallOf("h", 3, <<>>)) >>,
       << Stmt_Function(ID("k", 1), << ID("x", 2) >>,
             << Stmt_If(V("x", 3), ReturnOf(4, S("t")), Some(ReturnOf(5, S("e")))) >>),
          Stmt_Print(CallOf("k", 6, << Expr_Literal(Bool(TRUE)) >>)),
          Stmt_Print(CallOf("k", 8, << Expr_Literal(Bool(FALSE)) >>)) >> >>

ReturnProgram(id) == [family |-> "return", id |-> id, stmts |-> ReturnStmts[id]]

\* 1: return;
\* 2: { { return 1; } }
\* 3: fun f() { return 1; }  return 2;
\* 4: if (true) { while (true) return; }
\* 5: fun f() { return; }
\* 6: fun f() { { while (false) { if (true) return 1; } } }
\* 7: fun f() { fun g() { return 1; } return g; }
\* 8: fun f() { fun g() { } return 1; }
TopLevelStmts ==
    << << ReturnOf(1, Expr_Literal(Nil)) >>,
       << Stmt_Block(<< Stmt_Block(<< ReturnOf(1, N(1)) >>) >>) >>,
       << Stmt_Function(ID("f", 1), <<>>, << ReturnOf(2, N(1)) >>),
          ReturnOf(3, N(2)) >>,
       << Stmt_If(Expr_Literal(Bool(TRUE)),
             Stmt_Block(<< Stmt_While(Expr_Literal(Bool(TRUE)),
                                      ReturnOf(1, Expr_Literal(Nil))) >>),
             None) >>,
       << Stmt_Function(ID("f", 1), <<>>, << ReturnOf(2, Expr_Literal(Nil)) >>) >>,
       << Stmt_Function(ID("f", 1), <<>>,
             << Stmt_Block(<< Stmt_While(Expr_Literal(Bool(FALSE)),
                   Stmt_Block(<< Stmt_If(Expr_Literal(Bool(TRUE)),
                                         ReturnOf(2, N(1)), None) >>)) >>) >>) >>,
       << Stmt_Function(ID("f", 1), <<>>,
             << Stmt_Function(ID("g", 2), <<>>, << ReturnOf(3, N(1)) >>),
                ReturnOf(4, V("g", 5)) >>) >>,
       << Stmt_Function(ID("f", 1), <<>>,
             << Stmt_Function(ID("g", 2), <<>>, <<>>),
                ReturnOf(3, N(1)) >>) >> >>

TopLevelProgram(id) == [family |-> "toplevel", id |-> id, stmts |-> TopLevelStmts[id]]

\* 1: { var a = a; }
\* 2: { { var a = a; } }
\* 3: fun f() { var a = a; }
\* 4: fun f() { { var a = a + 1; } }
\* 5: { var a = 1; { var a = a; } }
\* 6: var a = a;
\* 7: { var a = 1; var b = a; }
\* 8: { var a = 1; { var b = a; } }
InitializerStmts ==
    << << Stmt_Block(<< Stmt_Var(ID("a", 1), V("a", 2)) >>) >>,
       << Stmt_Block(<< Stmt_Block(<< Stmt_Var(ID("a", 1), V("a", 2)) >>) >>) >>,
       << Stmt_Function(ID("f", 1), <<>>, << Stmt_Var(ID("a", 2), V("a", 3)) >>) >>,
       << Stmt_Function(ID("f", 1), <<>>,
             << Stmt_Block(<< Stmt_Var(ID("a", 2),
                   Expr_Binary(V("a", 3), OP("PLUS", 4), N(1))) >>) >>) >>,
       << Stmt_Block(<< Stmt_Var(ID("a", 1), N(1)),
                        Stmt_Block(<< Stmt_Var(ID("a", 2), V("a", 3)) >>) >>) >>,
       << Stmt_Var(ID("a", 1), V("a", 2)) >>,
       << Stmt_Block(<< Stmt_Var(ID("a", 1), N(1)), Stmt_Var(ID("b", 2), V("a", 3)) >>) >>,
       << Stmt_Block(<< Stmt_Var(ID("a", 1), N(1)),
                        Stmt_Block(<< Stmt_Var(ID("b", 2), V("a", 3)) >>) >>) >> >>

InitializerProgram(id) ==
    [family |-> "initializer", id |-> id, stmts |-> InitializerStmts[id]]

\*  1: { var a; var a; }
\*  2: { var f; fun f() {} }
\*  3: fun f(p, p) {}
\*  4: { fun f() {} var f; }
\*  5: fun f(p) { var p; }
\*  6: { { var a; var b; var a; } }
\*  7: var a; var a;
\*  8: fun f() {} fun f() {}
\*  9: { var a; { var a; } }
\* 10: fun f(p) { { var p; } }
\* 11: { var a; } { var a; }
RedeclareStmts ==
    << << Stmt_Block(<< Stmt_Var(ID("a", 1), Expr_Literal(Nil)),
                        Stmt_Var(ID("a", 2), Expr_Literal(Nil)) >>) >>,
       << Stmt_Block(<< Stmt_Var(ID("f", 1), Expr_Literal(Nil)),
                        Stmt_Function(ID("f", 2), <<>>, <<>>) >>) >>,
       << Stmt_Function(ID("f", 1), << ID("p", 2), ID("p", 3) >>, <<>>) >>,
       << Stmt_Block(<< Stmt_Function(ID("f", 1), <<>>, <<>>),
                        Stmt_Var(ID("f", 2), Expr_Literal(Nil)) >>) >>,
       << Stmt_Function(ID("f", 1), << ID("p", 2) >>,
             << Stmt_Var(ID("p", 3), Expr_Literal(Nil)) >>) >>,
       << Stmt_Block(<< Stmt_Block(<< Stmt_Var(ID("a", 1), Expr_Literal(Nil)),
                                      Stmt_Var(ID("b", 2), Expr_Literal(Nil)),
                                      Stmt_Var(ID("a", 3), Expr_Literal(Nil)) >>) >>) >>,
       << Stmt_Var(ID("a", 1), Expr_Literal(Nil)),
          Stmt_Var(ID("a", 2), Expr_Literal(Nil)) >>,
       << Stmt_Function(ID("f", 1), <<>>, <<>>),
          Stmt_Function(ID("f", 2), <<>>, <<>>) >>,
       << Stmt_Block(<< Stmt_Var(ID("a", 1), Expr_Literal(Nil)),
                        Stmt_Block(<< Stmt_Var(ID("a", 2), Expr_Literal(Nil)) >>) >>) >>,
       << Stmt_Function(ID("f", 1), << ID("p", 2) >>,
             << Stmt_Block(<< Stmt_Var(ID("p", 3), Expr_Literal(Nil)) >>) >>) >>,
       << Stmt_Block(<< Stmt_Var(ID("a", 1), Expr_Literal(Nil)) >>),
          Stmt_Block(<< Stmt_Var(ID("a", 2), Expr_Literal(Nil)) >>) >> >>

RedeclareProgram(id) == [family |-> "redeclare", id |-> id, stmts |-> RedeclareStmts[id]]

\* 1: var a = 1; { var a = 2; print a; } print a;
\* 2: var a = 1; { var a = 2; { var a = 3; print a; } print a; } print a;
\* 3: fun f() { var a = "f"; { var a = "b"; print a; } print a; }  f();
\* 4: var a = 1; { var b = 2; { var a = 3; } print a; }
\* 5: { var a = 1; { var a = 2; } print a; }
BlockVarStmts ==
    << << Stmt_Var(ID("a", 1), N(1)),
          Stmt_Block(<< Stmt_Var(ID("a", 2), N(2)), Stmt_Print(V("a", 3)) >>),
          Stmt_Print(V("a", 4)) >>,
       << Stmt_Var(ID("a", 1), N(1)),
          Stmt_Block(<< Stmt_Var(ID("a", 2), N(2)),
                        Stmt_Block(<< Stmt_Var(ID("a", 3), N(3)), Stmt_Print(V("a", 4)) >>),
                        Stmt_Print(V("a", 5)) >>),
          Stmt_Print(V("a", 6)) >>,
       << Stmt_Function(ID("f", 1), <<>>,
             << Stmt_Var(ID("a", 2), S("f")),
                Stmt_Block(<< Stmt_Var(ID("a", 3), S("b")), Stmt_Print(V("a", 4)) >>),
                Stmt_Print(V("a", 5)) >>),
          Stmt_Expression(CallOf("f", 6, <<>>)) >>,
       << Stmt_Var(ID("a", 1), N(1)),
          Stmt_Block(<< Stmt_Var(ID("b", 2), N(2)),
                        Stmt_Block(<< Stmt_Var(ID("a", 3), N(3)) >>),
                        Stmt_Print(V("a", 4)) >>) >>,
       << Stmt_Block(<< Stmt_Var(ID("a", 1), N(1)),
                        Stmt_Block(<< Stmt_Var(ID("a", 2), N(2)) >>),
                        Stmt_Print(V("a", 3)) >>) >> >>

BlockVarProgram(id) == [family |-> "blockvar", id |-> id, stmts |-> BlockVarStmts[id]]

\* 1: var a = "g"; { var a = "l"; a = 1; { a = 1; } print a; } print a;
\* 2: { var a = "oa"; var b = "ob"; { var b = "ib"; a = b; } print a; }
\* 3: var a = "g"; { var a = "l"; var b = "x"; { a = b; } { { print b; } } print a; }
\*    print a;
\* 4: var a = "g"; a = 1; print a;
\* 5: { var a = "l"; a = 2; print a; }
\* 6: var a = "g"; { var a = "l"; { a = 1; } print a; } print a;
\* 7: b = 1;
\* 8: var a = "g"; print a = 1;
\* 9: var a = "g"; { var a = "l"; { { a = 1; } } a = 1; print a; } print a;
AssignOf(name, pos, value) == Expr_Assign(ID(name, pos), value)

AssignStmts ==
    << << Stmt_Var(ID("a", 1), S("g")),
          Stmt_Block(<< Stmt_Var(ID("a", 2), S("l")),
                        Stmt_Expression(AssignOf("a", 3, N(1))),
                        Stmt_Block(<< Stmt_Expression(AssignOf("a", 4, N(1))) >>),
                        Stmt_Print(V("a", 5)) >>),
          Stmt_Print(V("a", 6)) >>,
       << Stmt_Block(<< Stmt_Var(ID("a", 1), S("oa")),
                        Stmt_Var(ID("b", 2), S("ob")),
                        Stmt_Block(<< Stmt_Var(ID("b", 3), S("ib")),
                                      Stmt_Expression(AssignOf("a", 4, V("b", 5))) >>),
                        Stmt_Print(V("a", 6)) >>) >>,
       << Stmt_Var(ID("a", 1), S("g")),
          Stmt_Block(<< Stmt_Var(ID("a", 2), S("l")),
                        Stmt_Var(ID("b", 3), S("x")),
                        Stmt_Block(<< Stmt_Expression(AssignOf("a", 4, V("b", 5))) >>),
                        Stmt_Block(<< Stmt_Block(<< Stmt_Print(V("b", 6)) >>) >>),
                        Stmt_Print(V("a", 7)) >>),
          Stmt_Print(V("a", 8)) >>,
       << Stmt_Var(ID("a", 1), S("g")),
          Stmt_Expression(AssignOf("a", 2, N(1))),
          Stmt_Print(V("a", 3)) >>,
       << Stmt_Block(<< Stmt_Var(ID("a", 1), S("l")),
                        Stmt_Expression(AssignOf("a", 2, N(2))),
                        Stmt_Print(V("a", 3)) >>) >>,
       << Stmt_Var(ID("a", 1), S("g")),
          Stmt_Block(<< Stmt_Var(ID("a", 2), S("l")),
                        Stmt_Block(<< Stmt_Expression(AssignOf("a", 3, N(1))) >>),
                        Stmt_Print(V("a", 4)) >>),
          Stmt_Print(V("a", 5)) >>,
       << Stmt_Expression(AssignOf("b", 1, N(1))) >>,
       << Stmt_Var(ID("a", 1), S("g")),
          Stmt_Print(AssignOf("a", 2, N(1))) >>,
       << Stmt_Var(ID("a", 1), S("g")),
          Stmt_Block(<< Stmt_Var(ID("a", 2), S("l")),
                        Stmt_Block(<< Stmt_Block(<<
                           Stmt_Expression(AssignOf("a", 3, N(1))) >>) >>),
                        Stmt_Expression(AssignOf("a", 4, N(1))),
                        Stmt_Print(V("a", 5)) >>),
          Stmt_Print(V("a", 6)) >> >>

AssignProgram(id) == [family |-> "assign", id |-> id, stmts |-> AssignStmts[id]]

\* the scanner's token type of a word (scan_token, identifier's keywords)
WordType(w) ==
    CASE w = "(" -> "LeftParen" [] w = ")" -> "RightParen"
      [] w = "{" -> "LeftBrace" [] w = "}" -> "RightBrace"
      [] w = "," -> "COMMA" [] w = "." -> "DOT"
      [] w = "-" -> "MINUS" [] w = "+" -> "PLUS"
      [] w = ";" -> "SEMICOLON" [] w = "/" -> "SLASH" [] w = "*" -> "STAR"
      [] w = "!" -> "BANG" [] w = "!=" -> "BangEqual"
      [] w = "=" -> "EQUAL" [] w = "==" -> "EqualEqual"
      [] w = ">" -> "GREATER" [] w = ">=" -> "GreaterEqual"
      [] w = "<" -> "LESS" [] w = "<=" -> "LessEqual"
      [] w = "and" -> "AND" [] w = "class" -> "CLASS" [] w = "else" -> "ELSE"
      [] w = "false" -> "FALSE" [] w = "for" -> "FOR" [] w = "fun" -> "FUN"
      [] w = "if" -> "IF" [] w = "nil" -> "NIL" [] w = "or" -> "OR"
      [] w = "print" -> "PRINT" [] w = "return" -> "RETURN"
      [] w = "super" -> "SUPER" [] w = "this" -> "THIS" [] w = "true" -> "TRUE"
      [] w = "var" -> "VAR" [] w = "while" -> "WHILE"
      [] w \in {"0", "1", "2"} -> "NUMBER"
      [] OTHER -> "IDENTIFIER"

\* the literal the scanner attaches (number, add_token)
WordLiteral(w) ==
    CASE w = "0" -> Num(0) [] w = "1" -> Num(1) [] w = "2" -> Num(2)
      [] OTHER -> Nil

\* Scanner::scan_tokens
TokensOf(words) ==
    [i \in 1..Len(words) |-> Token(WordType(words[i]), words[i],
                                   WordLiteral(words[i]), 1, i)]
    \o << Token("EOF", "", Nil, 1, Len(words) + 1) >>

\* the statements Parser::parse builds of the words of a source
Parsed(words) == Parser_parse(Parser_new(TokensOf(words))).r.v

\* 1: for (var i = 0; i < 2; i = i + 1) print i;
\* 2: for (;;) print -nil;
\* 3: var i = 0; for (; i < 2;) { print i; i = i + 1; }
\* 4: var i = 2; for (i = 0; i < 2; i = i + 1) print i;
\* 5: for (var i = 0; ; i = i + 1) { print i; i == 1 and -nil; }
ForSources ==
    << <<"for", "(", "var", "i", "=", "0", ";", "i", "<", "2", ";",
         "i", "=", "i", "+", "1", ")", "print", "i", ";">>,
       <<"for", "(", ";", ";", ")", "print", "-", "nil", ";">>,
       <<"var", "i", "=", "0", ";", "for", "(", ";", "i", "<", "2", ";", ")",
         "{", "print", "i", ";", "i", "=", "i", "+", "1", ";", "}">>,
       <<"var", "i", "=", "2", ";", "for", "(", "i", "=", "0", ";", "i", "<", "2", ";",
         "i", "=", "i", "+", "1", ")", "print", "i", ";">>,
       <<"for", "(", "var", "i", "=", "0", ";", ";", "i", "=", "i", "+", "1", ")",
         "{", "print", "i", ";", "i", "==", "1", "and", "-", "nil", ";", "}">> >>

ForProgram(id) == [family |-> "for", id |-> id, stmts |-> Parsed(ForSources[id])]

\* 1: var a = 0; var f = 1; f(a = 1, a = 2);
\* 2: var a = 0; fun g(x, y, z) {} g(a = 1, -nil, a = 2);
\* 3: var a = 0; undefined(a = 1);
\* 4: var a = 0; fun g(x, y) { print x; print y; } g(a = 1, a = 2);
\* 5: var a = 0; "s"(a = 1);
CallOrderStmts ==
    << << Stmt_Var(ID("a", 1), N(0)),
          Stmt_Var(ID("f", 2), N(1)),
          Stmt_Expression(CallOf("f", 3, << AssignOf("a", 5, N(1)),
                                            AssignOf("a", 6, N(2)) >>)) >>,
       << Stmt_Var(ID("a", 1), N(0)),
          Stmt_Function(ID("g", 2), << ID("x", 3), ID("y", 4), ID("z", 5) >>, <<>>),
          Stmt_Expression(CallOf("g", 6,
             << AssignOf("a", 8, N(1)),
                Expr_Unary(OP("MINUS", 9), Expr_Literal(Nil)),
                AssignOf("a", 10, N(2)) >>)) >>,
       << Stmt_Var(ID("a", 1), N(0)),
          Stmt_Expression(CallOf("undefined", 2, << AssignOf("a", 4, N(1)) >>)) >>,
       << Stmt_Var(ID("a", 1), N(0)),
          Stmt_Function(ID("g", 2), << ID("x", 3), ID("y", 4) >>,
             << Stmt_Print(V("x", 5)), Stmt_Print(V("y", 6)) >>),
          Stmt_Expression(CallOf("g", 7, << AssignOf("a", 9, N(1)),
                                            AssignOf("a", 10, N(2)) >>)) >>,
       << Stmt_Var(ID("a", 1), N(0)),
          Stmt_Expression(Expr_Call(S("s"), OP("RightParen", 2),
                                    << AssignOf("a", 3, N(1)) >>)) >> >>

CallOrderProgram(id) ==
    [family |-> "callorder", id |-> id, stmts |-> CallOrderStmts[id]]

Programs ==
    {BinaryProgram(op, x, y) : op \in BinaryOps, x \in Operands, y \in Operands}
    \cup {LogicProgram(op, x, y) : op \in {"OR", "AND"}, x \in LogicValues, y \in LogicValues}
    \cup {IfProgram(x, has_else) : x \in LogicValues, has_else \in BOOLEAN}
    \cup {ArityProgram(callee, n, m) : callee \in {"f", "clock"},
                                       n \in 0..MaxArity, m \in 0..MaxArity}
    \cup {ClosureProgram(calls) : calls \in SeqsUpTo(ClosureNames, MaxCalls)}
    \cup {ShadowProgram(line) : line \in {1, 2}}
    \cup {ScopeProgram(id) : id \in 1..Len(ScopeStmts)}
    \cup {ReturnProgram(id) : id \in 1..Len(ReturnStmts)}
    \cup {TopLevelProgram(id) : id \in 1..Len(TopLevelStmts)}
    \cup {InitializerProgram(id) : id \in 1..Len(InitializerStmts)}
    \cup {RedeclareProgram(id) : id \in 1..Len(RedeclareStmts)}
    \cup {BlockVarProgram(id) : id \in 1..Len(BlockVarStmts)}
    \cup {AssignProgram(id) : id \in 1..Len(AssignStmts)}
    \cup {ForProgram(id) : id \in 1..Len(ForSources)}
    \cup {CallOrderProgram(id) : id \in 1..Len(CallOrderStmts)}

-----------------------------------------------------------------------------
(* The pipeline: resolve the program, then interpret it *)

ClockValues == {0, 1}

NoParser == [P |-> Parser_new(<<>>), statements |-> <<>>, result |-> None]
NoResolver == [R |-> Resolver_new(EmptyMap), r |-> Ok(Nil)]
NoScanner == Scanner_new(<<>>)

Init ==
    /\ prog \in Programs
    /\ phase = "resolve"
    /\ pc = 1
    /\ interp = Interpreter_new
    /\ resolver = NoResolver
    /\ parser = NoParser
    /\ scanner = NoScanner

\* Resolver::new(&mut interpreter).resolve_statements(&statements)
Resolve ==
    /\ phase = "resolve"
    /\ LET x == resolve_statements(Resolver_new(interp.locals), prog.stmts) IN
       /\ resolver' = [R |-> x.I, r |-> x.r]
       /\ interp' = [interp EXCEPT !.locals = x.I.locals]
       /\ phase' = IF IsOk(x) THEN "run" ELSE "resolve_error"
    /\ UNCHANGED <<prog, pc, parser, scanner>>

\* Interpreter::interpret, one iteration of its loop over the statements
Interpret(now) ==
    /\ phase = "run"
    /\ pc <= Len(prog.stmts)
    /\ LET x == execute([interp EXCEPT !.clock = now, !.steps = 0], prog.stmts[pc])
           printed == IF IsOk(x) THEN x.I
                      ELSE [x.I EXCEPT !.out = Append(@, [ch |-> "error", r |-> x.r])]
       IN /\ interp' = [printed EXCEPT !.clock = 0, !.steps = 0]
          /\ phase' = IF x.r.k = "OutOfSteps" THEN "cut"
                      ELSE IF pc = Len(prog.stmts) THEN "done" ELSE "run"
    /\ pc' = pc + 1
    /\ UNCHANGED <<prog, resolver, parser, scanner>>

Next ==
    \/ Resolve
    \/ \E now \in ClockValues : Interpret(now)

Spec == Init /\ [][Next]_vars

-----------------------------------------------------------------------------
(* The parser run on token sequences, as the scanner hands them over: the   *)
(* tokens of the words in order, all on line 1, closed by EOF.  Every       *)
(* sequence of at most MaxTokens words of Alphabet is parsed, and Sources.  *)

MaxTokens == 3

Alphabet == {"return", "print", "a", "1", "=", ";", "{", "}"}

\* fun f ( a , a , .. , a ) { }   with n parameters
FunSource(n) ==
    <<"fun", "f", "(">> \o [i \in 1..(2 * n - 1) |-> IF i % 2 = 1 THEN "a" ELSE ","]
    \o <<")", "{", "}">>

Sources ==
    { FunSource(MaxArgs), FunSource(MaxArgs + 1),
      <<"fun", "f", "(", ")", "{", "return", "1", ";", "}">>,
      <<"fun", "f", "(", ")", "{", "return", ";", "}">>,
      <<"fun", "f", "(", "a", ",", "b", ")", "{", "print", "a", "+", "b", ";", "}",
        "f", "(", "1", ",", "2", ")", ";">>,
      <<"{", "return", "a", ";", "}">>,
      <<"if", "(", "a", ")", "return", "1", ";", "else", "return", ";">>,
      <<"if", "(", "a", "==", "1", ")", "print", "1", ";", "else", "print", "2", ";">>,
      <<"while", "(", "a", "<", "2", ")", "a", "=", "a", "+", "1", ";">>,
      <<"for", "(", "var", "i", "=", "0", ";", "i", "<", "2", ";", "i", "=", "i", "+", "1",
        ")", "print", "i", ";">>,
      <<"for", "(", ";", ";", ")", "print", "1", ";">>,
      <<"var", "a", "=", "!", "true", "or", "nil", "and", "-", "1", "*", "(", "2", "/", "1",
        ")", ">=", "0", ";">>,
      <<"print", "a", ";", "return", "1", ";", "print", "a", ";">>,
      <<"print", "(", "1", ";", "print", "+", ";", "print", "2", ";">>,
      <<"print", ";", "var", "=", "1", ";">>,
      <<"a", "=", "b", "=", "c", ";">>,
      <<"(", "a", ")", "=", "1", ";">>,
      <<"a", "+", "b", "=", "c", ";", "print", "a", ";">>,
      <<"a", "=", "1", "=", "2", ";">>,
      <<"f", "(", ")", "=", "a", "=", "1">> }

Inputs == SeqsUpTo(Alphabet, MaxTokens) \cup Sources

ParserInit ==
    /\ prog \in {[family |-> "tokens", words |-> w] : w \in Inputs}
    /\ phase = "parse"
    /\ pc = 1
    /\ interp = Interpreter_new
    /\ resolver = NoResolver
    /\ parser = [P |-> Parser_new(TokensOf(prog.words)), statements |-> <<>>,
                 result |-> None]
    /\ scanner = NoScanner

\* Parser::parse, one iteration of its loop: statements.push(self.declaration()?)
Parse_declaration ==
    /\ phase = "parse"
    /\ ~Parser_is_at_end(parser.P)
    /\ LET d == Parser_self("declaration", parser.P, None) IN
       IF IsOk(d)
       THEN /\ parser' = [parser EXCEPT !.P = d.I, !.statements = Append(@, d.r.v)]
            /\ phase' = "parse"
       ELSE /\ parser' = [parser EXCEPT !.P = d.I, !.result = Some(d.r)]
            /\ phase' = "parse_error"
    /\ UNCHANGED <<prog, pc, interp, resolver, scanner>>

\* Parser::parse, leaving the loop: Ok(statements)
Parse_end ==
    /\ phase = "parse"
    /\ Parser_is_at_end(parser.P)
    /\ parser' = [parser EXCEPT !.result = Some(Ok(parser.statements))]
    /\ phase' = "parsed"
    /\ UNCHANGED <<prog, pc, interp, resolver, scanner>>

ParserNext ==
    \/ Parse_declaration
    \/ Parse_end

ParserSpec == ParserInit /\ [][ParserNext]_vars

-----------------------------------------------------------------------------
(* The scanner run on source texts: every text of at most MaxChars          *)
(* characters of Characters, and Texts.                                     *)

MaxChars == 4

Characters == {"o", "r", "f", "_", "1", " "}

Texts ==
    { <<"o", "r", "d", "e", "r">>,
      <<"v", "a", "r", " ", "o", "r", "d", "e", "r", " ", "=", " ", "1", ".", "5", ";">>,
      <<"a", " ", "o", "r", " ", "b", "\n", "o", "r", "c", "a">>,
      <<"c", "o", "l", "o", "r", "!", "=", "\"", "o", "r", "\"", "<", "=", "2">>,
      <<"/", "/", " ", "o", "r", "\n", "(", "o", ")", "/", "_", "o", "r", "1">>,
      <<"i", "f", "{", "}", ",", ".", "-", "+", "*", "!", "<", ">", "=", "=", ">", "=">>,
      <<"\"", "a", "\n", "b", "\"", "\t", "\r", "#", "1", ".", "\"", "x">> }

ScannerInputs == SeqsUpTo(Characters, MaxChars) \cup Texts

ScannerInit ==
    /\ prog \in {[family |-> "source", chars |-> c] : c \in ScannerInputs}
    /\ phase = "scan"
    /\ pc = 1
    /\ interp = Interpreter_new
    /\ resolver = NoResolver
    /\ parser = NoParser
    /\ scanner = Scanner_new(prog.chars)

\* Scanner::scan_tokens, one iteration of its loop
Scan_token ==
    /\ phase = "scan"
    /\ ~Scanner_is_at_end(scanner)
    /\ scanner' = Scanner_scan_token([scanner EXCEPT !.start = scanner.current])
    /\ UNCHANGED <<prog, phase, pc, interp, resolver, parser>>

\* Scanner::scan_tokens, leaving the loop: the EOF token
Scan_end ==
    /\ phase = "scan"
    /\ Scanner_is_at_end(scanner)
    /\ scanner' = [scanner EXCEPT !.tokens =
                      Append(@, Token("EOF", "", Nil, scanner.line,
                                      Len(scanner.source) + 1))]
    /\ phase' = "scanned"
    /\ UNCHANGED <<prog, pc, interp, resolver, parser>>

ScannerNext ==
    \/ Scan_token
    \/ Scan_end

ScannerSpec == ScannerInit /\ [][ScannerNext]_vars

-----------------------------------------------------------------------------
(* What a run printed, one string per line: the text of a print statement,  *)
(* or the message of the error Interpreter::interpret printed.              *)

OutLine(item) ==
    IF item.ch = "print" THEN item.text
    ELSE IF item.r.k = "RuntimeError" THEN "RuntimeError: " \o item.r.msg
    ELSE item.r.k

OutLines == [i \in 1..Len(interp.out) |-> OutLine(interp.out[i])]

LogOf(kind) == {i \in 1..Len(interp.log) : interp.log[i].kind = kind}

Falsy(v) == v = Nil \/ v = Bool(FALSE)

-----------------------------------------------------------------------------
(* C1: after every call of execute_block, whether its statements completed, *)
(* raised a RuntimeError or raised a Return signal, the active environment  *)
(* is the one that was active when the call started; so between top-level   *)
(* statements the active environment is the global one.                     *)
C1_EnvironmentRestored ==
    /\ \A i \in LogOf("block") : interp.log[i].exit = interp.log[i].entry
    /\ interp.env = interp.globals

\* a run in which nested blocks were left normally, by an error and by a return
C1_Witness ==
    /\ phase = "done"
    /\ \A outcome \in {"Ok", "RuntimeError", "Return"} :
          \E i \in LogOf("block") :
             /\ interp.log[i].outcome = outcome
             /\ interp.log[i].entry # interp.globals
             /\ interp.log[i].exit = interp.log[i].entry

(* C2: every call of a user function runs its body in a fresh environment   *)
(* whose enclosing environment is the one that was active when the fun      *)
(* declaration was executed, not the caller's; no two calls share their     *)
(* environment; a free variable reads the declaration's scope.              *)
C2_LexicalScope ==
    /\ \A i \in LogOf("call") :
          LET c == interp.log[i] IN
          /\ c.enclosing = c.closure
          /\ \E j \in LogOf("fun") :
                interp.log[j].name = c.name /\ interp.log[j].env = c.enclosing
          /\ c.env > c.heap_before
          /\ \A j \in LogOf("call") : j # i => interp.log[j].env # c.env
    /\ (phase = "done" /\ prog.family = "scope" /\ prog.id = 1)
          => OutLines = <<"global">>
    /\ (phase = "done" /\ prog.family = "scope" /\ prog.id = 2)
          => OutLines = <<"outer">>
    /\ (phase = "done" /\ prog.family = "scope" /\ prog.id = 3)
          => OutLines = <<"0", "1", "2">>

\* a function was called from an environment that is not its closure, and
\* a recursive function was called three times
C2_Witness ==
    /\ phase = "done"
    /\ \/ /\ prog.family = "scope" /\ prog.id = 2
          /\ \E i \in LogOf("call") :
                interp.log[i].caller # interp.log[i].closure
       \/ /\ prog.family = "scope" /\ prog.id = 3
          /\ Cardinality(LogOf("call")) = 3

(* C3: every read of a Variable that has an entry k in the resolution table *)
(* yields the value bound k environments outward of the active one, and     *)
(* that is the binding of the scope the resolver found at the use site; a   *)
(* function declared in a block that reads a global keeps reading the       *)
(* global after the block declares the name.                                *)
C3_ResolvedReads ==
    /\ \A i \in LogOf("read") :
          LET rd == interp.log[i]
              site == resolver.R.sites[rd.pos]
          IN rd.distance.some =>
               /\ rd.distance.v < Len(rd.bindings)
               /\ rd.bindings[rd.distance.v + 1].some
               /\ rd.r = Ok(rd.bindings[rd.distance.v + 1].v)
               /\ site.some =>
                     /\ site.v < Len(rd.bindings)
                     /\ rd.bindings[site.v + 1].some
                     /\ rd.r = Ok(rd.bindings[site.v + 1].v)
    /\ (phase = "done" /\ prog.family = "scope" /\ prog.id = 4)
          => OutLines = <<"global", "global">>

(* C4: closures declared in the same activation share its environment: an  *)
(* assignment made by calling one is read by the others; closures of        *)
(* another activation of the same function have their own binding.          *)
RECURSIVE ClosureExpected(_, _, _, _)
ClosureExpected(calls, j, a, b) ==
    IF j > Len(calls) THEN <<>>
    ELSE CASE calls[j] = "incA" ->
                <<ToString(a + 1)>> \o ClosureExpected(calls, j + 1, a + 1, b)
           [] calls[j] = "getA" -> <<ToString(a)>> \o ClosureExpected(calls, j + 1, a, b)
           [] calls[j] = "incB" ->
                <<ToString(b + 1)>> \o ClosureExpected(calls, j + 1, a, b + 1)
           [] calls[j] = "getB" -> <<ToString(b)>> \o ClosureExpected(calls, j + 1, a, b)

C4_SharedActivation ==
    (phase = "done" /\ prog.family = "closure")
       => OutLines = ClosureExpected(prog.calls, 1, 0, 0)

\* a counter incremented twice, read through the other closure of its
\* activation
C4_Witness ==
    /\ phase = "done" /\ prog.family = "closure"
    /\ prog.calls = <<"incA", "incA", "getA">>
    /\ OutLines = <<"1", "2", "2">>

(* C5: a return token in statement position is parsed to a Return          *)
(* statement that holds the keyword token and the parsed value, or          *)
(* Literal(Nil) when the value is absent: "return ;" and "return X ;" at    *)
(* the start of a program parse to that one statement, and in a function    *)
(* body to the body's statement.                                            *)
PrimaryOf(tok) ==
    IF tok.token_type = "IDENTIFIER" THEN Expr_Variable(tok)
    ELSE Expr_Literal(tok.literal)

C5_ReturnParsed ==
    LET tokens == parser.P.tokens IN
    (phase \in {"parsed", "parse_error"} /\ prog.family = "tokens")
       => /\ prog.words = <<"return", ";">>
             => parser.result =
                   Some(Ok(<< Stmt_Return(tokens[1], Expr_Literal(Nil)) >>))
          /\ (Len(prog.words) = 3 /\ prog.words[1] = "return"
                /\ prog.words[2] \in {"a", "1"} /\ prog.words[3] = ";")
             => parser.result =
                   Some(Ok(<< Stmt_Return(tokens[1], PrimaryOf(tokens[2])) >>))
          /\ prog.words = <<"fun", "f", "(", ")", "{", "return", "1", ";", "}">>
             => parser.result =
                   Some(Ok(<< Stmt_Function(tokens[2], <<>>,
                                 << Stmt_Return(tokens[6], N(1)) >>) >>))

(* C6: an If statement evaluates its condition once and executes exactly    *)
(* one branch: then when the condition is truthy, else (when present) only  *)
(* when it is falsy.                                                        *)
C6_OneBranch ==
    (phase = "done" /\ prog.family = "if")
       => /\ Cardinality({i \in LogOf("assign") : interp.log[i].name = "c"}) = 1
          /\ OutLines = (IF ~Falsy(prog.x) THEN <<"then">>
                         ELSE IF prog.has_else THEN <<"else">> ELSE <<>>)
                        \o <<"end">>

(* C7: == and != never raise a RuntimeError: == is true iff both operands   *)
(* are the same Literal variant with equal payload or both Nil, false for   *)
(* different variants, and != is its negation.                              *)
SpecEqual(x, y) == IsLiteral(x) /\ IsLiteral(y) /\ x = y

C7_Equality ==
    (phase = "done" /\ prog.family = "binary"
       /\ prog.op \in {"EqualEqual", "BangEqual"}
       /\ IsLiteral(prog.x) /\ IsLiteral(prog.y))
       => OutLines = << Literal_fmt(Bool(IF prog.op = "EqualEqual"
                                         THEN SpecEqual(prog.x, prog.y)
                                         ELSE ~SpecEqual(prog.x, prog.y))) >>

(* C8: -, *, /, <, <=, >, >= raise RuntimeError "Operands must be numbers." *)
(* whenever an operand is not a Num, also when both are strings.            *)
C8_NumberOperands ==
    (phase = "done" /\ prog.family = "binary"
       /\ prog.op \in BinaryOps \ {"PLUS", "EqualEqual", "BangEqual"}
       /\ (prog.x.t # "Num" \/ prog.y.t # "Num"))
       => OutLines = << "RuntimeError: Operands must be numbers." >>

(* C9: in A or B, B is evaluated iff A is falsy; in A and B, iff A is       *)
(* truthy; A is evaluated once and the result is the deciding operand's     *)
(* value, unchanged.                                                        *)
RightEvaluated(op, x) == IF op = "OR" THEN Falsy(x) ELSE ~Falsy(x)

Evaluations(name) ==
    Cardinality({i \in LogOf("assign") : interp.log[i].name = name})

C9_ShortCircuit ==
    (phase = "done" /\ prog.family = "logic")
       => /\ Evaluations("l") = 1
          /\ Evaluations("r") = (IF RightEvaluated(prog.op, prog.x) THEN 1 ELSE 0)
          /\ interp.heap[interp.globals].values["v"]
                = (IF RightEvaluated(prog.op, prog.x) THEN prog.y ELSE prog.x)
          /\ OutLines = <<>>

\* a truthy value that is no boolean decided an or, and a falsy one an and
C9_Witness ==
    /\ phase = "done" /\ prog.family = "logic"
    /\ \/ prog.op = "OR" /\ prog.x = Num(0) /\ prog.y = Bool(TRUE)
       \/ prog.op = "AND" /\ prog.x = Nil /\ prog.y = Bool(TRUE)
    /\ Evaluations("l") = 1 /\ Evaluations("r") = 0
    /\ interp.heap[interp.globals].values["v"] = prog.x

(* C10: a call with an argument count other than the callee's arity raises  *)
(* RuntimeError "Expected N arguments but got M.", does not run the body    *)
(* and creates no environment.                                              *)
ProgramArity == IF prog.callee = "clock" THEN 0 ELSE prog.n

C10_ArityMismatch ==
    (phase = "done" /\ prog.family = "arity" /\ prog.m # ProgramArity)
       => /\ Len(OutLines) >= 1
          /\ OutLines[1] = "RuntimeError: Expected " \o ToString(ProgramArity)
                              \o " arguments but got " \o ToString(prog.m) \o "."
          /\ \A i \in 1..Len(OutLines) : OutLines[i] # "body"
          /\ Len(interp.heap) = 1
          /\ LogOf("call") = {} /\ LogOf("block") = {}

\* a function of two parameters was called with one argument
C10_Witness ==
    /\ phase = "done" /\ prog.family = "arity"
    /\ prog.callee = "f" /\ prog.n = 2 /\ prog.m = 1
    /\ OutLines[1] = "RuntimeError: Expected 2 arguments but got 1."

(* C11: a Return statement executed in a function body, at any depth of     *)
(* blocks, if branches and while loops, ends that call at once: no later    *)
(* statement of the body runs, the call yields the returned value, only the *)
(* nearest call is ended; a body that ends without Return yields Nil.       *)
ReturnExpected ==
    << <<"r">>, <<"in", "after", "out">>, <<"body", "nil">>, <<"nil">>, <<"t", "e">> >>

C11_ReturnEndsCall ==
    (phase = "done" /\ prog.family = "return")
       => OutLines = ReturnExpected[prog.id]

\* the inner call was ended by a Return in a block, the outer call went on
\* and was ended by its own
C11_Witness ==
    /\ phase = "done" /\ prog.family = "return" /\ prog.id = 2
    /\ OutLines = <<"in", "after", "out">>
    /\ \E i, j \in LogOf("call") :
          /\ i < j
          /\ interp.log[i].name = "inner" /\ interp.log[i].outcome = "Return"
          /\ interp.log[j].name = "outer" /\ interp.log[j].outcome = "Return"

(* C12: the resolver returns ResolveError "Can't return from top-level      *)
(* code." for every Return statement that is not inside a function body     *)
(* (also in top-level blocks, and after a function declaration has ended)   *)
(* and accepts every Return statement inside one, with or without a value.  *)
TopLevelReturn == {1, 2, 3, 4}

C12_TopLevelReturn ==
    (phase # "resolve" /\ prog.family = "toplevel")
       => IF prog.id \in TopLevelReturn
          THEN /\ phase = "resolve_error"
               /\ resolver.r.k = "ResolveError"
               /\ resolver.r.msg = "Can't return from top-level code."
               /\ resolver.r.token.token_type = "RETURN"
          ELSE resolver.r = Ok(Nil)

\* a Return after the end of a function declaration was refused, and one
\* after the end of a nested function declaration was accepted
C12_Witness ==
    /\ prog.family = "toplevel"
    /\ \/ prog.id = 3 /\ phase = "resolve_error" /\ resolver.r.token.pos = 3
       \/ prog.id = 8 /\ phase = "done" /\ resolver.r = Ok(Nil)

(* C13: the resolver returns ResolveError "Cannot read local variable in    *)
(* its own initializer." for a Variable whose name is declared and not yet  *)
(* defined in the innermost scope, at every nesting depth; a global, or a   *)
(* name that is defined, is read without error.                             *)
OwnInitializer == {1, 2, 3, 4, 5}

C13_OwnInitializer ==
    (phase # "resolve" /\ prog.family = "initializer")
       => IF prog.id \in OwnInitializer
          THEN /\ phase = "resolve_error"
               /\ resolver.r.k = "ResolveError"
               /\ resolver.r.msg = "Cannot read local variable in its own initializer."
               /\ resolver.r.token.lexeme = "a"
          ELSE resolver.r = Ok(Nil)

(* C14: declaring a name (by var, by fun or as a parameter) that is already *)
(* in the innermost local scope makes the resolver return ResolveError      *)
(* "Already a variable with this name in this scope." at the second         *)
(* declaration; at global level and in another nested scope the name may be *)
(* declared again.                                                          *)
Redeclared == [id \in 1..6 |-> <<2, 2, 3, 2, 3, 3>>[id]]

C14_Redeclare ==
    (phase # "resolve" /\ prog.family = "redeclare")
       => IF prog.id \in DOMAIN Redeclared
          THEN /\ phase = "resolve_error"
               /\ resolver.r.k = "ResolveError"
               /\ resolver.r.msg = "Already a variable with this name in this scope."
               /\ resolver.r.token.pos = Redeclared[prog.id]
          ELSE resolver.r = Ok(Nil)

\* a parameter name given twice was refused
C14_Witness ==
    /\ prog.family = "redeclare" /\ prog.id = 3
    /\ phase = "resolve_error"
    /\ resolver.r =
          ResolveError(ID("p", 3), "Already a variable with this name in this scope.")

(* C15: after a ParseError in one declaration the parser synchronizes and   *)
(* goes on with the next declaration, so that one call of parse on a token  *)
(* sequence with errors in two statements reports each of them.             *)
TwoErrors ==
    { <<"print", "(", "1", ";", "print", "+", ";", "print", "2", ";">>,
      <<"print", ";", "var", "=", "1", ";">> }

C15_ErrorRecovery ==
    (phase \in {"parsed", "parse_error"} /\ prog.family = "tokens"
       /\ prog.words \in TwoErrors)
       => /\ Len(parser.P.diags) = 2
          /\ parser.P.diags[1].message
                \in {"Expect ')' after expression.", "Expect expression."}
          /\ parser.P.diags[2].message
                \in {"Expect expression.", "Expect variable name."}

(* C16: for every token sequence that conforms to the grammar parse returns *)
(* Ok with the statement list and reports nothing; for every other sequence *)
(* (a function of more than 255 parameters included) it reports at least   *)
(* once and returns a ParseError.                                           *)
(* The grammar, on the words of Alphabet:                                   *)
(*   program -> statement* ;  statement -> "print" expr ";" | expr ";"      *)
(*            | "return" expr? ";" | "{" statement* "}" ;                   *)
(*   expr -> "a" "=" expr | "a" | "1"                                       *)
RECURSIVE GrammarExpr(_, _)
GrammarExpr(w, i) ==
    IF i > Len(w) THEN 0
    ELSE IF w[i] = "a" /\ i + 1 <= Len(w) /\ w[i + 1] = "="
         THEN GrammarExpr(w, i + 2)
         ELSE IF w[i] \in {"a", "1"} THEN i + 1 ELSE 0

GrammarSemicolon(w, e) == IF e # 0 /\ e <= Len(w) /\ w[e] = ";" THEN e + 1 ELSE 0

RECURSIVE GrammarStatement(_, _, _)
GrammarStatement(w, i, block) ==
    IF i = 0 \/ i > Len(w) THEN 0
    ELSE IF block
    THEN IF w[i] = "}" THEN i + 1
         ELSE GrammarStatement(w, GrammarStatement(w, i, FALSE), TRUE)
    ELSE CASE w[i] = "print" -> GrammarSemicolon(w, GrammarExpr(w, i + 1))
           [] w[i] = "return" ->
                 IF i + 1 <= Len(w) /\ w[i + 1] = ";" THEN i + 2
                 ELSE GrammarSemicolon(w, GrammarExpr(w, i + 1))
           [] w[i] = "{" -> GrammarStatement(w, i + 1, TRUE)
           [] OTHER -> GrammarSemicolon(w, GrammarExpr(w, i))

RECURSIVE GrammarProgram(_, _)
GrammarProgram(w, i) ==
    IF i = 0 THEN FALSE
    ELSE IF i > Len(w) THEN TRUE
    ELSE GrammarProgram(w, GrammarStatement(w, i, FALSE))

Conforms(w) ==
    IF w = FunSource(MaxArgs) THEN TRUE
    ELSE IF w = FunSource(MaxArgs + 1) THEN FALSE
    ELSE GrammarProgram(w, 1)

C16_ParserTotality ==
    (phase \in {"parsed", "parse_error"} /\ prog.family = "tokens"
       /\ (prog.words \in SeqsUpTo(Alphabet, MaxTokens)
             \/ prog.words \in {FunSource(MaxArgs), FunSource(MaxArgs + 1)}))
       => IF Conforms(prog.words)
          THEN /\ phase = "parsed"
               /\ parser.result.v.k = "Ok"
               /\ parser.P.diags = <<>>
          ELSE /\ phase = "parse_error"
               /\ parser.result.v.k = "ParseError"
               /\ Len(parser.P.diags) >= 1

(* C17: a var declaration executed in a block defines the name in that      *)
(* block's environment only: the binding of the name in an enclosing        *)
(* environment keeps its value, and a read after the block yields it        *)
(* (var a = 1; { var a = 2; print a; } print a; prints 2 then 1).           *)
BlockVarExpected ==
    << <<"2", "1">>, <<"3", "2", "1">>, <<"b", "f">>, <<"1">>, <<"1">> >>

C17_BlockLocalVar ==
    (phase = "done" /\ prog.family = "blockvar")
       => /\ OutLines = BlockVarExpected[prog.id]
          /\ prog.id \in {1, 2, 4}
                => interp.heap[interp.globals].values["a"] = Num(1)
          /\ prog.id \in {3, 5} => "a" \notin DOMAIN interp.heap[interp.globals].values

\* the block's a was printed, then the unchanged global a
C17_Witness ==
    /\ phase = "done" /\ prog.family = "blockvar" /\ prog.id = 1
    /\ OutLines = <<"2", "1">>
    /\ \E e \in 2..Len(interp.heap) :
          /\ interp.heap[e].enclosing = interp.globals
          /\ interp.heap[e].values["a"] = Num(2)
    /\ interp.heap[interp.globals].values["a"] = Num(1)

(* C18: a program runs to its end or to a runtime error: once a top-level   *)
(* statement has raised a RuntimeError, no later top-level statement of the *)
(* program is executed.                                                     *)
RuntimeErrors ==
    {i \in 1..Len(interp.out) :
        interp.out[i].ch = "error" /\ interp.out[i].r.k = "RuntimeError"}

C18_StopsAtRuntimeError ==
    RuntimeErrors # {}
       => /\ phase # "run"
          /\ \A i \in RuntimeErrors : i = Len(interp.out)

(* C19: the resolution table tells apart the occurrences of an expression:  *)
(* once the program is resolved, every Variable occurrence the resolver     *)
(* found in a local scope has in the table the hop count found at its own   *)
(* site, also when another occurrence of the same name on the same line     *)
(* was resolved at another depth.                                           *)
VariableSites ==
    {pos \in DOMAIN resolver.R.sites :
        /\ resolver.R.sites[pos].some
        /\ resolver.R.sites[pos].expr.e = "Variable"
        /\ resolver.R.sites[pos].expr.name.pos = pos}

C19_TableDistinguishes ==
    (phase \in {"run", "done"} /\ resolver.r.k = "Ok") =>
        \A pos \in VariableSites :
            LET site == resolver.R.sites[pos]
            IN /\ ExprKey(site.expr) \in DOMAIN interp.locals
               /\ interp.locals[ExprKey(site.expr)] = site.v

(* C20: evaluating an assignment writes the evaluated value to exactly one  *)
(* existing binding, that of the name in the scope the resolver found at    *)
(* the assignment site, or the global one when it found none; no binding is *)
(* created, no other binding changes, and the value of the expression is    *)
(* the assigned value; an assignment to a name bound nowhere raises and     *)
(* writes nothing.  This holds also when two assignments have structurally  *)
(* equal right-hand sides and when the right-hand side is a Variable.       *)
AssignExpected ==
    << <<"1", "g">>, <<"ib">>, <<"x", "x", "g">>, <<"1">>, <<"2">>, <<"1", "g">>,
       <<"RuntimeError: Undefined variable 'b'.">>, <<"1">>, <<"1", "g">> >>

AssignTarget(a) ==
    LET site == resolver.R.sites[a.pos]
    IN IF site.some THEN ancestor(a.before, a.env, site.v) ELSE interp.globals

C20_AssignWritesResolved ==
    /\ \A i \in LogOf("assign") :
          LET a == interp.log[i]
              target == AssignTarget(a)
          IN IF target # 0 /\ a.name \in DOMAIN a.before[target].values
             THEN /\ a.r = Ok(Nil)
                  /\ a.after = HeapDefine(a.before, target, a.name, a.v)
             ELSE /\ a.r.k = "RuntimeError"
                  /\ a.after = a.before
    /\ (phase = "done" /\ prog.family = "assign")
          => OutLines = AssignExpected[prog.id]

(* C21: the parser rewrites for (init; cond; inc) body into the block of    *)
(* init, when there is one, and While(cond', body'), where body' is the     *)
(* block of body and Expression(inc) when there is an increment and body    *)
(* otherwise, and cond' is Literal(true) when there is no condition; the    *)
(* loop is made of Block, While and the clauses only, and the increment     *)
(* runs after the body in every iteration.                                  *)
ForToken(id, k) == TokensOf(ForSources[id])[k]
ForVar(id, k) == Expr_Variable(ForToken(id, k))
ForIncrement(id, k) ==
    Stmt_Expression(Expr_Assign(ForToken(id, k),
        Expr_Binary(ForVar(id, k + 2), ForToken(id, k + 3), N(1))))
ForCondition(id, k) == Expr_Binary(ForVar(id, k), ForToken(id, k + 1), N(2))

ForExpected ==
    << << Stmt_Block(<< Stmt_Var(ForToken(1, 4), N(0)),
                        Stmt_While(ForCondition(1, 8),
                           Stmt_Block(<< Stmt_Print(ForVar(1, 19)),
                                         ForIncrement(1, 12) >>)) >>) >>,
       << Stmt_While(Expr_Literal(Bool(TRUE)),
                     Stmt_Print(Expr_Unary(ForToken(2, 7), Expr_Literal(Nil)))) >>,
       << Stmt_Var(ForToken(3, 2), N(0)),
          Stmt_While(ForCondition(3, 9),
             Stmt_Block(<< Stmt_Print(ForVar(3, 16)), ForIncrement(3, 18) >>)) >>,
       << Stmt_Var(ForToken(4, 2), N(2)),
          Stmt_Block(<< Stmt_Expression(Expr_Assign(ForToken(4, 8), N(0))),
                        Stmt_While(ForCondition(4, 12),
                           Stmt_Block(<< Stmt_Print(ForVar(4, 23)),
                                         ForIncrement(4, 16) >>)) >>) >>,
       << Stmt_Block(<< Stmt_Var(ForToken(5, 4), N(0)),
                        Stmt_While(Expr_Literal(Bool(TRUE)),
                           Stmt_Block(<<
                              Stmt_Block(<< Stmt_Print(ForVar(5, 17)),
                                 Stmt_Expression(Expr_Logic(
                                    Expr_Binary(ForVar(5, 19), ForToken(5, 20), N(1)),
                                    ForToken(5, 22),
                                    Expr_Unary(ForToken(5, 23), Expr_Literal(Nil)))) >>),
                              ForIncrement(5, 9) >>)) >>) >> >>

ForPrinted ==
    << <<"0", "1">>, <<"RuntimeError: Operand must be a number.">>, <<"0", "1">>,
       <<"0", "1">>, <<"0", "1", "RuntimeError: Operand must be a number.">> >>

C21_ForDesugared ==
    prog.family = "for" =>
       /\ prog.stmts = ForExpected[prog.id]
       /\ phase = "done" => OutLines = ForPrinted[prog.id]
       /\ phase # "cut"

\* the loop with all three clauses printed 0 and 1 and ended
C21_Witness ==
    /\ phase = "done" /\ prog.family = "for" /\ prog.id = 1
    /\ prog.stmts[1].s = "Block" /\ prog.stmts[1].stmts[2].s = "While"
    /\ OutLines = <<"0", "1">>

(* C22: when the expression left of an = is not a Variable, the parser      *)
(* reports "Invalid assignment target." at the = token and assignment       *)
(* returns a ParseError with the cursor where the right-hand side ended;    *)
(* when it is a Variable the result is Assign{name, value}, the value being *)
(* parsed as an assignment itself, so that a = b = c is                     *)
(* Assign(a, Assign(b, c)).                                                 *)
AssignmentStart == Parser_new(TokensOf(prog.words))

AssignmentLeft == Parser_self("or", AssignmentStart, None)

AssignmentValue == Parser_self("assignment", Parser_advance(AssignmentLeft.I), None)

AssignmentApplies ==
    /\ prog.family = "tokens"
    /\ IsOk(AssignmentLeft)
    /\ Parser_check(AssignmentLeft.I, "EQUAL")
    /\ IsOk(AssignmentValue)

IdentifierChar(c) == is_ascii_alphanumeric(c) \/ c = "_"

IdentifierRuns(chars) ==
    {run \in (1..Len(chars)) \X (1..Len(chars)) :
        /\ run[1] <= run[2]
        /\ \A k \in run[1]..run[2] : IdentifierChar(chars[k])
        /\ is_alphabetic(chars[run[1]]) \/ chars[run[1]] = "_"
        /\ run[1] = 1 \/ ~IdentifierChar(chars[run[1] - 1])
        /\ run[2] = Len(chars) \/ ~IdentifierChar(chars[run[2] + 1])}

\* a text without strings and comments, where every run is code
PlainText(chars) == \A k \in 1..Len(chars) : chars[k] \notin {"\"", "/"}

C23_IdentifierRuns ==
    (phase = "scanned" /\ PlainText(prog.chars)) =>
        \A run \in IdentifierRuns(prog.chars) :
            LET text == StringOf(SubSeq(prog.chars, run[1], run[2]))
                inside == {i \in 1..Len(scanner.tokens) :
                              scanner.tokens[i].pos \in run[1]..run[2]}
            IN /\ Cardinality(inside) = 1
               /\ \A i \in inside :
                     /\ scanner.tokens[i].pos = run[1]
                     /\ scanner.tokens[i].lexeme = text
                     /\ scanner.tokens[i].token_type =
                           IF text \in DOMAIN KEYWORDS THEN KEYWORDS[text]
                           ELSE "IDENTIFIER"

(* C24: Environment.assign(name, v) updates the binding of name in the      *)
(* nearest environment of the enclosing chain that has one and changes      *)
(* nothing else; when no environment of the chain binds the name it returns *)
(* RuntimeError "Undefined variable 'X'." and changes nothing.              *)
(* Environment.get(name) returns the value of that nearest binding, or the  *)
(* same error.  Checked on every environment of every heap a run builds.    *)
RECURSIVE EnclosingChain(_, _)
EnclosingChain(heap, id) ==
    IF id = 0 THEN <<>> ELSE <<id>> \o EnclosingChain(heap, heap[id].enclosing)

ChainNames == {"a", "b", "x", "i", "clock", "undefined"}

C24_EnvironmentAssignGet ==
    \A id \in 1..Len(interp.heap), lexeme \in ChainNames :
        LET heap == interp.heap
            name == ID(lexeme, 1)
            chain == EnclosingChain(heap, id)
            binders == {k \in 1..Len(chain) : lexeme \in DOMAIN heap[chain[k]].values}
            a == Environment_assign(heap, id, name, Str("assigned"))
            g == Environment_get(heap, id, name)
        IN IF binders = {}
           THEN /\ a.r = RuntimeError(name, "Undefined variable '" \o lexeme \o "'.")
                /\ a.heap = heap
                /\ g = a.r
           ELSE LET nearest == chain[CHOOSE k \in binders : \A j \in binders : k <= j]
                IN /\ a.r = Ok(Nil)
                   /\ a.heap = [heap EXCEPT ![nearest].values[lexeme] = Str("assigned")]
                   /\ g = Ok(heap[nearest].values[lexeme])

\* an assignment went through Environment::assign from an environment that
\* does not bind the name, past which two environments of the chain do
C24_Witness ==
    /\ phase = "done" /\ prog.family = "assign" /\ prog.id = 9
    /\ \E i \in LogOf("assign") :
          LET a == interp.log[i]
              chain == EnclosingChain(a.before, a.env)
          IN /\ a.name \notin DOMAIN a.before[a.env].values
             /\ a.distance = Some(0)
             /\ a.r = Ok(Nil)
             /\ Cardinality({k \in 1..Len(chain) :
                                a.name \in DOMAIN a.before[chain[k]].values}) = 2
             /\ a.after = Environment_assign(a.before, a.env, ID(a.name, 1), a.v).heap
             /\ a.after # a.before

(* C25: a Call evaluates the callee, then the arguments from left to right, *)
(* each once, and only then looks at the callee: a callee that is no        *)
(* Callable gives "Can only call functions and classes." after the effects  *)
(* of all arguments; an error in an argument keeps the later arguments from *)
(* being evaluated.                                                         *)
CallOrderStep(entry) ==
    IF entry.kind = "call" THEN <<"call", entry.name>> ELSE <<entry.kind, entry.pos>>

CallOrderTrace ==
    LET steps == SelectSeq(interp.log,
                           LAMBDA entry : entry.kind \in {"read", "assign", "call"})
    IN [i \in 1..Len(steps) |-> CallOrderStep(steps[i])]

CallOrderExpected ==
    << [trace |-> << <<"read", 3>>, <<"assign", 5>>, <<"assign", 6>> >>,
        out |-> <<"RuntimeError: Can only call functions and classes.">>,
        a |-> Num(2)],
       [trace |-> << <<"read", 6>>, <<"assign", 8>> >>,
        out |-> <<"RuntimeError: Operand must be a number.">>,
        a |-> Num(1)],
       [trace |-> << <<"read", 2>> >>,
        out |-> <<"RuntimeError: Undefined variable 'undefined'.">>,
        a |-> Num(0)],
       [trace |-> << <<"read", 7>>, <<"assign", 9>>, <<"assign", 10>>,
                     <<"read", 5>>, <<"read", 6>>, <<"call", "g">> >>,
        out |-> <<"1", "2">>,
        a |-> Num(2)],
       [trace |-> << <<"assign", 3>> >>,
        out |-> <<"RuntimeError: Can only call functions and classes.">>,
        a |-> Num(1)] >>

C25_CallOrder ==
    (phase = "done" /\ prog.family = "callorder") =>
        LET expected == CallOrderExpected[prog.id]
        IN /\ CallOrderTrace = expected.trace
           /\ OutLines = expected.out
           /\ interp.heap[interp.globals].values["a"] = expected.a

\* the number f was called after both arguments had assigned a
C25_Witness ==
    /\ phase = "done" /\ prog.family = "callorder" /\ prog.id = 1
    /\ CallOrderTrace = << <<"read", 3>>, <<"assign", 5>>, <<"assign", 6>> >>
    /\ interp.heap[interp.globals].values["a"] = Num(2)
    /\ OutLines = <<"RuntimeError: Can only call functions and classes.">>

(* C26: resolving a statement list a second time, with a new Resolver on    *)
(* the same interpreter, leaves the resolution table as the first           *)
(* resolution left it, and two resolutions of the list that start from      *)
(* empty tables give the same table.                                        *)
ResolvedAgain == resolve_statements(Resolver_new(interp.locals), prog.stmts)

ResolvedFresh == resolve_statements(Resolver_new(EmptyMap), prog.stmts)

C26_ResolverPurity ==
    (phase \in {"run", "resolve_error"}) =>
        /\ ResolvedAgain.I.locals = interp.locals
        /\ ResolvedAgain.r = resolver.r
        /\ ResolvedFresh.I.locals = resolver.R.locals
        /\ ResolvedFresh.r = resolver.r

\* a list in which two references share a table entry was resolved twice
C26_Witness ==
    /\ phase = "run" /\ prog.family = "shadow" /\ prog.line = 1
    /\ Cardinality(DOMAIN interp.locals) = 1
    /\ Cardinality(DOMAIN resolver.R.sites) = 2
    /\ ResolvedAgain.I.locals = interp.locals

(* C27: in every state of the interpreter the enclosing pointers lead from  *)
(* every environment (the active one and those function values captured)   *)
(* to the global environment, in finitely many steps and through no         *)
(* environment twice; and no step changes the enclosing pointer of an       *)
(* environment that exists.                                                 *)
EnvironmentRooted(heap, id) ==
    \E n \in 0..(Len(heap) - 1) :
        /\ ancestor(heap, id, n) = interp.globals
        /\ \A i \in 0..n, j \in 0..n : i < j => ancestor(heap, id, i) # ancestor(heap, id, j)

CapturedIn(environment) ==
    {environment.values[lexeme].closure :
        lexeme \in {l \in DOMAIN environment.values : environment.values[l].t = "Fun"}}

CapturedEnvironments ==
    UNION {CapturedIn(interp.heap[id]) : id \in 1..Len(interp.heap)}

EnvironmentsRooted ==
    /\ interp.env \in 1..Len(interp.heap)
    /\ CapturedEnvironments \subseteq 1..Len(interp.heap)
    /\ interp.heap[interp.globals].enclosing = 0
    /\ \A id \in 1..Len(interp.heap) : EnvironmentRooted(interp.heap, id)

EnclosingKept ==
    /\ Len(interp'.heap) >= Len(interp.heap)
    /\ \A id \in 1..Len(interp.heap) :
          interp'.heap[id].enclosing = interp.heap[id].enclosing

C27_EnvironmentChain == []EnvironmentsRooted /\ [][EnclosingKept]_vars

\* blocks and calls have built environments two steps away from the global
\* one, and a function value holds one that is not the global one
C27_Witness ==
    /\ phase = "done"
    /\ Len(interp.heap) >= 4
    /\ \E id \in 1..Len(interp.heap) :
          ancestor(interp.heap, id, 2) = interp.globals
    /\ \E c \in CapturedEnvironments : c # interp.globals

(* C28: when synchronize returns, the last token consumed is a ; or the     *)
(* next token is one of class, fun, var, for, if, while, print, return, or  *)
(* the parser is at EOF; synchronize consumes at least one token unless the *)
(* parser is at EOF already, and never moves the cursor past the EOF token. *)
(* Checked from every cursor position of every input, and on the cursor a   *)
(* failed parse leaves.                                                     *)
MaxSynchronized == 30

Synchronized(P) ==
    \/ P.current >= 1 /\ Parser_previous(P).token_type = "SEMICOLON"
    \/ Parser_peek(P).token_type \in
          {"CLASS", "FUN", "VAR", "FOR", "IF", "WHILE", "PRINT", "RETURN"}
    \/ Parser_is_at_end(P)

C28_Synchronize ==
    (prog.family = "tokens" /\ Len(prog.words) <= MaxSynchronized) =>
        /\ \A c \in 0..(Len(parser.P.tokens) - 1) :
              LET P == [parser.P EXCEPT !.current = c]
                  Q == Parser_synchronize(P)
              IN /\ Synchronized(Q)
                 /\ Parser_is_at_end(P) => Q.current = c
                 /\ ~Parser_is_at_end(P) => Q.current > c
                 /\ Q.current <= Len(Q.tokens) - 1
                 /\ Q.tokens = P.tokens /\ Q.diags = P.diags
        /\ phase = "parse_error" => Synchronized(parser.P)

\* a a print: the error is at the second a, and synchronize stopped before
\* print
C28_Witness ==
    /\ phase = "parse_error"
    /\ prog.words = <<"a", "a", "print">>
    /\ parser.P.current = 2
    /\ Parser_peek(parser.P).token_type = "PRINT"
    /\ Parser_previous(parser.P).token_type = "IDENTIFIER"

(* C29: parse terminates on every token sequence that ends with EOF: parse   *)
(* returns Ok with the cursor at the EOF token or returns an error, the     *)
(* cursor never decreases and never passes the EOF token, every iteration   *)
(* of the loops of parse and block (one call of declaration, at a token     *)
(* that is not EOF) consumes at least one token or ends with an error, so   *)
(* that the distance to the EOF token shrinks with every iteration that     *)
(* stays in the loop, and previous() is never called while the cursor is 0. *)
ParseReturns ==
    LET d == Parser_parse(Parser_new(parser.P.tokens))
    IN /\ d.r.k \in {"Ok", "ParseError"}
       /\ IsOk(d) => d.I.current = Len(d.I.tokens) - 1
       /\ d.I.current <= Len(d.I.tokens) - 1
       /\ ~d.I.panicked

DeclarationAdvances(c) ==
    LET P == [parser.P EXCEPT !.current = c]
        d == Parser_self("declaration", P, None)
    IN /\ d.I.current >= c
       /\ IsOk(d) => d.I.current > c
       /\ d.I.current <= Len(P.tokens) - 1
       /\ ~d.I.panicked

ParseCursor ==
    /\ parser.P.current <= Len(parser.P.tokens) - 1
    /\ ~parser.P.panicked
    /\ Len(parser.statements) <= parser.P.current
    /\ ParseReturns
    /\ Len(prog.words) <= MaxSynchronized
          => \A c \in 0..(Len(parser.P.tokens) - 2) : DeclarationAdvances(c)

ParseStep ==
    /\ parser'.P.current >= parser.P.current
    /\ phase' = "parse" => parser'.P.current > parser.P.current

C29_ParseTerminates == []ParseCursor /\ [][ParseStep]_vars

\* a parse of three declarations, one of them a block, reached the EOF token
C29_Witness ==
    /\ phase = "parsed"
    /\ Len(parser.statements) >= 2
    /\ \E i \in 1..Len(parser.statements) :
          /\ parser.statements[i].s = "Function"
          /\ Len(parser.statements[i].body) >= 1
    /\ parser.P.current = Len(parser.P.tokens) - 1

(* C30: during resolution the depth of the scope stack equals the number of *)
(* blocks and function bodies being resolved: at every reference the        *)
(* resolver came to, the stack is as deep as the reference is nested in     *)
(* blocks and function bodies of the program; when resolve_statements on    *)
(* the program returns Ok, every reference was visited, the stack is empty  *)
(* and current_function is NONE; a hop count recorded for a reference is    *)
(* smaller than the depth of the stack at that reference.                   *)
RECURSIVE ReferenceDepths(_, _)
ReferenceDepths(node, depth) ==
    LET Each(nodes, d) ==
            UNION {ReferenceDepths(nodes[i], d) : i \in DOMAIN nodes}
    IN IF "e" \in DOMAIN node
       THEN CASE node.e \in {"Binary", "Logic"} ->
                   ReferenceDepths(node.left, depth)
                       \cup ReferenceDepths(node.right, depth)
              [] node.e = "Grouping" -> ReferenceDepths(node.expression, depth)
              [] node.e = "Literal" -> {}
              [] node.e = "Unary" -> ReferenceDepths(node.right, depth)
              [] node.e = "Variable" -> {<<node.name.pos, depth>>}
              [] node.e = "Assign" ->
                   {<<node.name.pos, depth>>}
                       \cup ReferenceDepths(node.value, depth)
              [] node.e = "Call" ->
                   ReferenceDepths(node.callee, depth)
                       \cup Each(node.arguments, depth)
       ELSE CASE node.s \in {"Expression", "Print", "Var"} ->
                   ReferenceDepths(node.expression, depth)
              [] node.s = "Block" -> Each(node.stmts, depth + 1)
              [] node.s = "If" ->
                   ReferenceDepths(node.condition, depth)
                       \cup ReferenceDepths(node.then_branch, depth)
                       \cup (IF node.else_branch.some
                             THEN ReferenceDepths(node.else_branch.v, depth)
                             ELSE {})
              [] node.s = "While" ->
                   ReferenceDepths(node.condition, depth)
                       \cup ReferenceDepths(node.body, depth)
              [] node.s = "Function" -> Each(node.body, depth + 1)
              [] node.s = "Return" -> ReferenceDepths(node.value, depth)

ProgramReferences ==
    UNION {ReferenceDepths(prog.stmts[i], 0) : i \in DOMAIN prog.stmts}

C30_ScopeDepth ==
    phase \in {"resolve_error", "run", "done", "cut"} =>
        /\ \A pos \in DOMAIN resolver.R.depths :
              <<pos, resolver.R.depths[pos]>> \in ProgramReferences
        /\ \A pos \in DOMAIN resolver.R.sites :
              resolver.R.sites[pos].some =>
                  resolver.R.sites[pos].v < resolver.R.depths[pos]
        /\ IsOk(resolver) =>
              /\ resolver.R.scopes = <<>>
              /\ resolver.R.current_function = "NONE"
              /\ DOMAIN resolver.R.depths = {x[1] : x \in ProgramReferences}

\* resolution ended Ok after a reference two scopes deep that was found one
\* scope further out
C30_Witness ==
    /\ phase = "run"
    /\ IsOk(resolver)
    /\ \E pos \in DOMAIN resolver.R.sites :
          /\ resolver.R.sites[pos].some
          /\ resolver.R.sites[pos].v >= 1
          /\ resolver.R.depths[pos] >= 2

====
